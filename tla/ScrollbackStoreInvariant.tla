--------------------- MODULE ScrollbackStoreInvariant ----------------------
(***************************************************************************)
(* The inductive invariants of the persisted scrollback, and its steps by  *)
(* what they do to files, rows, queues and tabs: what the theorems of      *)
(* ScrollbackStoreProofs are proved from.                                  *)
(*                                                                         *)
(* DiskInv: types, who owns a pane's row (Own: one tab of one process, its *)
(* latest session locked), the writers' queues, the files, and the rows    *)
(* with the place where each writer goes on.  The database's steps, then   *)
(* the users', the writers' and the collectors', each keep it.             *)
(*                                                                         *)
(* GcInv adds the collector: every row it saw is there as it was but for   *)
(* the chips, and a pane it found dead stays dead while it works (GcDead). *)
(*                                                                         *)
(* From there the steps are grouped by what they do to files, rows and     *)
(* queues (Shape).  PromiseInv relates the ghosts to the disk: what is     *)
(* durable is stored, a clear covers all that was sealed before it         *)
(* (ClearsCover), and a cleared block still stored has a clear ahead       *)
(* (ClearsAhead).  ScreenInv relates the tabs to the disk in both          *)
(* directions (ShownIsStored, StoredIsShown).                              *)
(***************************************************************************)
EXTENDS ScrollbackStore

-----------------------------------------------------------------------------
\* Types

ChunkRow == [id : Nat, session : Nat, pane : Nat, seq : Nat, start : Nat,
             stop : Nat, label : Nat]
TabType == [row : Nat, session : Nat, live : BOOLEAN, mem : Seq(Nat)]
WriterType == [q : Seq(Nat), pc : {"idle", "temp", "renamed", "rowed", "unlink", "purge"},
               seq : Nat, cursor : Nat, row : Nat, id : Nat, todo : Seq(ChunkRow)]
UiType == [op : {"idle", "start", "close", "quit"}, at : Nat, row : Nat,
           session : Nat, start : Nat]

IsGc(g) ==
  /\ g = [pc |-> g.pc, rows |-> g.rows, latest |-> g.latest, dead |-> g.dead,
          probing |-> g.probing, todo |-> g.todo]
  /\ g.pc \in {"off", "list", "probe", "apply"}
  /\ g.rows \subseteq ChunkRow /\ IsFiniteSet(g.rows) /\ g.dead \subseteq Nat
  /\ g.probing \in 0..MaxSessions /\ g.todo \in Seq(ChunkRow)
  /\ DOMAIN g.latest \subseteq Nat
  /\ g.latest = [r \in DOMAIN g.latest |-> g.latest[r]]
  /\ \A r \in DOMAIN g.latest : g.latest[r] \in 1..MaxSessions

Sessions == 1..Len(sessions)
SessionsOf(r) == {s \in Sessions : sessions[s] = r}

DbTypes ==
  /\ sessions \in Seq(Nat) /\ Len(sessions) <= MaxSessions
  /\ panes \in Nat
  /\ \A s \in Sessions : sessions[s] \in 1..panes
  /\ layout \in Seq(Nat)
  /\ rows \subseteq ChunkRow /\ IsFiniteSet(rows)
  /\ \A c, d \in rows : c.id = d.id => c = d
  /\ \A c \in rows : c.session \in Sessions /\ c.pane = sessions[c.session]

ProcTypes ==
  /\ held \in [1..MaxSessions -> Procs \cup {"free", "probe"}]
  /\ ui \in [Procs -> UiType]
  /\ tabs \in [Procs -> Seq(TabType)]
  /\ gc = [p \in Procs |-> gc[p]] /\ \A p \in Procs : IsGc(gc[p])
  /\ writer \in [1..MaxSessions -> WriterType]

FileTypes ==
  /\ files = [x \in DOMAIN files |-> files[x]]
  /\ DOMAIN files \subseteq Sessions \X Nat
  /\ sealedIn \in Seq(Nat) /\ Len(sealedIn) <= Len(LinesOf)
  /\ \A x \in DOMAIN files : files[x] \in 1..Len(sealedIn)

Types == DbTypes /\ ProcTypes /\ FileTypes

-----------------------------------------------------------------------------
\* Who owns a pane's row

Alive(s) == held[s] \in Procs

\* The tab of a session holds its lock and is of the row's latest session.
TabOK(p, i) ==
  /\ tabs[p][i].row \in 0..panes
  /\ tabs[p][i].live /\ tabs[p][i].session = 0 => tabs[p][i].row = 0
  /\ ~tabs[p][i].live => tabs[p][i].row # 0 /\ tabs[p][i].session = 0
  /\ tabs[p][i].session # 0 =>
       /\ tabs[p][i].session \in SessionsOf(tabs[p][i].row)
       /\ \A s \in SessionsOf(tabs[p][i].row) : s <= tabs[p][i].session
       /\ held[tabs[p][i].session] = p

TabsOK == \A p \in Procs : \A i \in DOMAIN tabs[p] : TabOK(p, i)

HeldOK ==
  \A s \in 1..MaxSessions : Alive(s) =>
    \E i \in DOMAIN tabs[held[s]] : tabs[held[s]][i].session = s

\* A row is in one tab of one process.
RowsApart ==
  \A p, q \in Procs : \A i \in DOMAIN tabs[p] : \A j \in DOMAIN tabs[q] :
    tabs[p][i].row = tabs[q][j].row /\ tabs[p][i].row # 0 => p = q /\ i = j

LayoutOK ==
  /\ \A i \in DOMAIN layout : layout[i] \in 1..panes
  /\ \A i, j \in DOMAIN layout : layout[i] = layout[j] => i = j

Starting(p) == ui[p].op = "start"
FreshStart(p) == ui[p].at = Len(tabs[p]) + 1

\* A session begun and not locked yet is of a dead tab's row or of a new one.
StartOK(p) ==
  /\ ui[p].session \in SessionsOf(ui[p].row)
  /\ \A s \in SessionsOf(ui[p].row) : s <= ui[p].session
  /\ ui[p].at \in 1..(Len(tabs[p]) + 1)
  /\ ~FreshStart(p) => /\ tabs[p][ui[p].at].row = ui[p].row
                       /\ ~tabs[p][ui[p].at].live
  /\ FreshStart(p) =>
       /\ \A q \in Procs : \A j \in DOMAIN tabs[q] : tabs[q][j].row # ui[p].row
       /\ \A j \in DOMAIN layout : layout[j] # ui[p].row
  /\ \A q \in Procs : Starting(q) /\ ui[q].row = ui[p].row => q = p

StartsOK == \A p \in Procs : Starting(p) => StartOK(p)

ClosesOK == \A p \in Procs : ui[p].op = "close" => ui[p].at \in DOMAIN tabs[p]

ProbesOK ==
  /\ \A p \in Procs : gc[p].probing # 0 => held[gc[p].probing] = "probe"
  /\ \A p, q \in Procs : gc[p].probing = gc[q].probing /\ gc[p].probing # 0 => p = q

Own == TabsOK /\ HeldOK /\ RowsApart /\ LayoutOK /\ StartsOK /\ ClosesOK /\ ProbesOK

-----------------------------------------------------------------------------
\* Writers

Clears(s) == \E i \in DOMAIN writer[s].q : writer[s].q[i] = 0

QueueOK(s) ==
  /\ Alive(s) => writer[s].row = sessions[s]
  /\ ~Alive(s) => writer[s].q = <<>>
  /\ writer[s].pc # "idle" => writer[s].q # <<>>
  /\ writer[s].pc \in {"temp", "renamed", "rowed"} => writer[s].q[1] # 0
  /\ writer[s].pc \in {"unlink", "purge"} => writer[s].q[1] = 0
  /\ \A i \in DOMAIN writer[s].q : writer[s].q[i] # 0 =>
       writer[s].q[i] \in 1..Len(sealedIn) /\ sealedIn[writer[s].q[i]] = writer[s].row
  /\ \A i, j \in DOMAIN writer[s].q :
       i < j /\ writer[s].q[i] # 0 /\ writer[s].q[j] # 0 => writer[s].q[i] < writer[s].q[j]

QueuesOK == \A s \in 1..MaxSessions : QueueOK(s)

\* Is the block at place i of the queue in a file already?
Filed(s, i) == i = 1 /\ writer[s].pc \in {"renamed", "rowed"}

\* A file's block was sealed in the pane of its session.
FilesOwn == \A x \in DOMAIN files : sealedIn[files[x]] = sessions[x[1]]

\* A block that waits for its file
Waits(s, b) ==
  \E i \in DOMAIN writer[s].q : writer[s].q[i] = b /\ b # 0 /\ ~Filed(s, i)

FilesApart == \A x, y \in DOMAIN files : files[x] = files[y] => x = y
WaitingUnfiled ==
  \A s \in 1..MaxSessions : \A b : Waits(s, b) => \A x \in DOMAIN files : files[x] # b
FiledHere ==
  \A s \in 1..MaxSessions : writer[s].pc \in {"renamed", "rowed"} =>
    Here(s) \in DOMAIN files /\ files[Here(s)] = writer[s].q[1]

FilesOK == FilesApart /\ WaitingUnfiled /\ FiledHere

-----------------------------------------------------------------------------
\* Rows

RowsOK ==
  /\ \A c \in rows : c.start <= c.stop
  /\ \A c, d \in rows : Path(c) = Path(d) => c = d
  /\ \A c, d \in rows : c.pane = d.pane /\ c.id < d.id => c.stop <= d.start

Written(s, c) == writer[s].pc = "rowed" /\ c.id = writer[s].id

\* A writer goes on after its pane's rows, the one it is writing apart.
WriterRows(s) ==
  /\ \A c \in rows : c.session = s => c.seq < writer[s].seq \/ Written(s, c)
  /\ \A c \in rows : c.pane = sessions[s] => c.stop <= writer[s].cursor \/ Written(s, c)
  /\ writer[s].pc = "rowed" =>
       \E c \in rows : /\ c.id = writer[s].id /\ Path(c) = Here(s)
                       /\ c.stop = writer[s].cursor + LinesOf[writer[s].q[1]]

WritersRows == \A s \in 1..MaxSessions : Alive(s) => WriterRows(s)

StartRows ==
  \A p \in Procs : Starting(p) => \A c \in rows :
    c.pane = ui[p].row => /\ ~FreshStart(p) /\ c.stop <= ui[p].start
                          /\ c.session # ui[p].session

\* The rows a clear has listed are the pane's.
ClearRows ==
  \A s \in 1..MaxSessions : Alive(s) /\ writer[s].pc \in {"unlink", "purge"} =>
    /\ \A c \in PaneRows(sessions[s]) : \E i \in DOMAIN writer[s].todo : writer[s].todo[i] = c
    /\ \A i \in DOMAIN writer[s].todo : writer[s].todo[i] \in PaneRows(sessions[s])
    /\ \A i, j \in DOMAIN writer[s].todo : writer[s].todo[i] = writer[s].todo[j] => i = j
    /\ writer[s].pc = "purge" => \A c \in PaneRows(sessions[s]) : Path(c) \notin DOMAIN files

\* Later rows hold later blocks.
StoredRows == {c \in rows : Path(c) \in DOMAIN files}
BlocksInOrder ==
  /\ \A c, d \in StoredRows :
       c.pane = d.pane /\ c.id < d.id => files[Path(c)] < files[Path(d)]
  /\ \A s \in 1..MaxSessions : \A c \in StoredRows : \A i \in DOMAIN writer[s].q :
       c.pane = writer[s].row /\ writer[s].q[i] # 0 =>
         files[Path(c)] < writer[s].q[i] \/ (i = 1 /\ Written(s, c))
  /\ \A c \in StoredRows : c.label \in {0, files[Path(c)]}

-----------------------------------------------------------------------------
\* Collectors

Collects(p) == gc[p].pc # "off"

\* A row the collector saw is still there, its label apart.
StillThere(c) == \E d \in rows : d.id = c.id /\ d.pane = c.pane /\ Path(d) = Path(c)

Watched(p) == gc[p].dead \cup DOMAIN gc[p].latest

CollectorsOK ==
  \A p \in Procs : Collects(p) =>
    /\ \A q \in Procs : Collects(q) => q = p
    /\ \A s \in 1..MaxSessions : ~Clears(s)
    /\ \A q \in Procs : Starting(q) => FreshStart(q)

BlankGc(g) == g.rows = {} /\ g.dead = {} /\ DOMAIN g.latest = {} /\ g.todo = <<>>
GcStarts == \A p \in Procs : gc[p].pc \in {"off", "list"} => BlankGc(gc[p])

\* What it saw and what it has chosen were chunks of sessions.
SeenChunk(c) == c.session \in Sessions /\ c.pane = sessions[c.session]
GcSeen ==
  \A p \in Procs :
    /\ \A c \in gc[p].rows : SeenChunk(c)
    /\ \A i \in DOMAIN gc[p].todo :
         SeenChunk(gc[p].todo[i]) /\ gc[p].todo[i].pane \in gc[p].dead

\* A pane that is new has no chunks.
FreshRows ==
  \A p \in Procs : Starting(p) /\ FreshStart(p) => \A c \in rows : c.pane # ui[p].row

GcRows ==
  \A p \in Procs :
    /\ gc[p].pc = "probe" => \A c \in gc[p].rows : StillThere(c)
    /\ \A c, d \in gc[p].rows : c.id = d.id => c = d
    /\ \A i \in DOMAIN gc[p].todo : StillThere(gc[p].todo[i]) /\ gc[p].todo[i].pane \in gc[p].dead
    /\ \A i, j \in DOMAIN gc[p].todo : gc[p].todo[i].id = gc[p].todo[j].id => i = j

GcDead ==
  \A p \in Procs :
    /\ Watched(p) \subseteq 1..panes
    /\ \A q \in Procs : Starting(q) => ui[q].row \notin Watched(p)
    /\ \A r \in DOMAIN gc[p].latest :
         /\ gc[p].latest[r] \in SessionsOf(r)
         /\ \A s \in SessionsOf(r) : s <= gc[p].latest[r]
    /\ \A r \in gc[p].dead : \A s \in SessionsOf(r) : ~Alive(s)

-----------------------------------------------------------------------------
\* What was promised

Stored(r) == {files[Path(c)] : c \in {d \in StoredRows : d.pane = r}}
Closing(p, i) == ui[p].op = "close" /\ ui[p].at = i

KnownBlocks == durable \cup collected \cup cleared \subseteq 1..Len(sealedIn)

QueuedIsNew ==
  \A s \in 1..MaxSessions : \A i \in DOMAIN writer[s].q : writer[s].q[i] # 0 =>
    /\ writer[s].q[i] \notin collected
    /\ writer[s].q[i] \in durable => i = 1 /\ writer[s].pc = "rowed"

StoredIsDurable == \A c \in StoredRows : files[Path(c)] \in durable \ collected

DurableIsStored ==
  \A b \in durable \ (cleared \cup unsettled \cup collected) : b \in Stored(sealedIn[b])

ClearsCover ==
  \A s \in 1..MaxSessions : \A i \in DOMAIN writer[s].q : writer[s].q[i] = 0 =>
    \A b \in SealedUnder(writer[s].row) :
      b \in cleared \/ \E j \in DOMAIN writer[s].q : j > i /\ writer[s].q[j] = b

ClearsAhead ==
  /\ \A c \in StoredRows : files[Path(c)] \in cleared =>
       \E s \in 1..MaxSessions : writer[s].row = c.pane /\ Clears(s)
  /\ \A s \in 1..MaxSessions : \A i \in DOMAIN writer[s].q :
       writer[s].q[i] \in cleared => \E j \in DOMAIN writer[s].q : j > i /\ writer[s].q[j] = 0

MemOK ==
  \A p \in Procs : \A i \in DOMAIN tabs[p] : tabs[p][i].row # 0 =>
    /\ \A k \in DOMAIN tabs[p][i].mem : tabs[p][i].mem[k] \in SealedUnder(tabs[p][i].row)
    /\ \A k, l \in DOMAIN tabs[p][i].mem : k < l => tabs[p][i].mem[k] < tabs[p][i].mem[l]

InMem(p, i, b) == \E k \in DOMAIN tabs[p][i].mem : tabs[p][i].mem[k] = b

ShownIsStored ==
  \A p \in Procs : \A i \in DOMAIN tabs[p] : tabs[p][i].row # 0 /\ ~Closing(p, i) =>
    \A k \in DOMAIN tabs[p][i].mem :
      /\ tabs[p][i].mem[k] \notin cleared
      /\ tabs[p][i].mem[k] \in durable \ collected =>
           tabs[p][i].mem[k] \in Stored(tabs[p][i].row)

StoredIsShown ==
  \A p \in Procs : \A i \in DOMAIN tabs[p] : tabs[p][i].row # 0 =>
    /\ \A b \in Stored(tabs[p][i].row) : InMem(p, i, b) \/ b \in cleared
    /\ tabs[p][i].session # 0 =>
         \A k \in DOMAIN writer[tabs[p][i].session].q :
           LET b == writer[tabs[p][i].session].q[k]
           IN  b # 0 => InMem(p, i, b) \/ b \in cleared

-----------------------------------------------------------------------------
\* What a step does to a queue, a row and a file

\* The writer of s after a step, its row apart; the others are as they were.
WriterBecomes(s, q, pc, seq, cursor, id, todo) ==
  /\ writer' \in [1..MaxSessions -> WriterType]
  /\ \A t \in 1..MaxSessions : t # s => writer'[t] = writer[t]
  /\ writer'[s].q = q /\ writer'[s].pc = pc /\ writer'[s].seq = seq
  /\ writer'[s].cursor = cursor /\ writer'[s].id = id /\ writer'[s].todo = todo
  /\ writer'[s].row = writer[s].row

\* The collector after each of its steps.
GcBecomes(p, pc, seen, latest, dead, probing, todo) ==
  /\ gc'[p] = [pc |-> pc, rows |-> seen, latest |-> latest, dead |-> dead,
               probing |-> probing, todo |-> todo]
  /\ gc'[p].pc = pc /\ gc'[p].rows = seen /\ gc'[p].latest = latest
  /\ gc'[p].dead = dead /\ gc'[p].probing = probing /\ gc'[p].todo = todo

\* A message is queued: a block, or 0 for a discard.
Queued(s, b) ==
  /\ WriterBecomes(s, Append(writer[s].q, b), writer[s].pc, writer[s].seq, writer[s].cursor,
                   writer[s].id, writer[s].todo)
  /\ writer'[s].q \in Seq(Nat) /\ Len(writer'[s].q) = Len(writer[s].q) + 1
  /\ writer'[s].q[Len(writer[s].q) + 1] = b
  /\ DOMAIN writer'[s].q = DOMAIN writer[s].q \cup {Len(writer[s].q) + 1}
  /\ \A i \in DOMAIN writer[s].q :
       i < Len(writer[s].q) + 1 /\ writer'[s].q[i] = writer[s].q[i]

\* A block that is sealed goes to the writer of the pane's row.
Sealed(p, i) ==
  /\ sealedIn' \in Seq(Nat) /\ Len(sealedIn') = Len(sealedIn) + 1
  /\ sealedIn'[Len(sealedIn) + 1] = tabs[p][i].row
  /\ \A b \in 1..Len(sealedIn) : sealedIn'[b] = sealedIn[b]
  /\ Len(sealedIn) \in Nat /\ Len(sealedIn) + 1 <= Len(LinesOf)
  /\ tabs[p][i].session = 0 => writer' = writer
  /\ tabs[p][i].session # 0 => Queued(tabs[p][i].session, Len(sealedIn) + 1)

\* The writer of a pane that gets its lock is a new one.
Resumes(p, got) ==
  /\ writer' \in [1..MaxSessions -> WriterType]
  /\ ~got => writer' = writer
  /\ got => writer'[ui[p].session] = Resumed(ui[p])
  /\ \A s \in 1..MaxSessions : s # ui[p].session => writer'[s] = writer[s]

SameButLabel(c, d) ==
  /\ c.id = d.id /\ c.session = d.session /\ c.pane = d.pane /\ c.seq = d.seq
  /\ c.start = d.start /\ c.stop = d.stop

Relabeled(id, b) ==
  /\ rows' \subseteq ChunkRow /\ IsFiniteSet(rows')
  /\ \A d \in rows' : \E c \in rows :
       SameButLabel(c, d) /\ d.label = IF c.id = id THEN b ELSE c.label
  /\ \A c \in rows : \E d \in rows' :
       SameButLabel(c, d) /\ d.label = IF c.id = id THEN b ELSE c.label

\* The row that is inserted.
NewRow(s) ==
  [id |-> NextRowId, session |-> s, pane |-> writer[s].row, seq |-> writer[s].seq,
   start |-> writer[s].cursor, stop |-> writer[s].cursor + LinesOf[writer[s].q[1]],
   label |-> 0]

Inserted(s, c) ==
  /\ rows' = rows \cup {c} /\ c \in ChunkRow
  /\ c.id = NextRowId /\ c.session = s /\ c.pane = writer[s].row /\ c.seq = writer[s].seq
  /\ c.start = writer[s].cursor /\ c.label = 0
  /\ c.stop = writer[s].cursor + LinesOf[writer[s].q[1]] /\ c.start <= c.stop
  /\ \A d \in rows : d.id < c.id /\ d.id # c.id
  /\ writer[s].q # <<>> /\ writer[s].q[1] # 0
  /\ durable' = durable \cup {writer[s].q[1]}

\* A block is put under the name its writer has come to.
Filing(s) ==
  /\ DOMAIN files' = DOMAIN files \cup {Here(s)}
  /\ files' = [x \in DOMAIN files' |-> files'[x]]
  /\ files'[Here(s)] = writer[s].q[1]
  /\ \A x \in DOMAIN files : x # Here(s) => files'[x] = files[x]
  /\ WriterBecomes(s, writer[s].q, "renamed", writer[s].seq, writer[s].cursor,
                   writer[s].id, writer[s].todo)
  /\ writer[s].q # <<>> /\ writer[s].q[1] # 0

Unfiled(path) ==
  /\ DOMAIN files' = DOMAIN files \ {path}
  /\ files' = [x \in DOMAIN files' |-> files'[x]]
  /\ \A x \in DOMAIN files' : files'[x] = files[x]

\* A clear unlinks the file of a row it has listed, or has none left.
Unlinks(s, i) ==
  /\ writer[s].pc = "unlink" /\ writer' = writer
  /\ i \in DOMAIN writer[s].todo /\ Path(writer[s].todo[i]) \in DOMAIN files
  /\ Unfiled(Path(writer[s].todo[i]))

NoneLeft(s) ==
  /\ writer[s].pc = "unlink" /\ files' = files
  /\ \A i \in DOMAIN writer[s].todo : Path(writer[s].todo[i]) \notin DOMAIN files
  /\ WriterBecomes(s, writer[s].q, "purge", writer[s].seq, writer[s].cursor,
                   writer[s].id, writer[s].todo)

-----------------------------------------------------------------------------
\* What a step does to the disk and to the queues

SameGhosts == UNCHANGED <<sealedIn, durable, cleared, unsettled, collected>>

\* Nothing; a session may end.
Rests ==
  /\ UNCHANGED <<files, rows, writer>> /\ SameGhosts
  /\ \A s \in 1..MaxSessions : Alive(s)' => Alive(s)

Seals(p, i) ==
  /\ i \in DOMAIN tabs[p] /\ Sealed(p, i)
  /\ UNCHANGED <<files, rows, sessions, held, durable, cleared, unsettled, collected>>

Discards(s) ==
  /\ s \in 1..MaxSessions /\ Alive(s) /\ Queued(s, 0)
  /\ cleared' = cleared \cup SealedUnder(writer[s].row)
  /\ UNCHANGED <<files, rows, sessions, held, sealedIn, durable, unsettled, collected>>

Wakes(p) ==
  /\ Starting(p) /\ Resumes(p, TRUE)
  /\ ui[p].session \in 1..MaxSessions /\ ~Alive(ui[p].session)
  /\ \A s \in 1..MaxSessions : s # ui[p].session => (Alive(s)' <=> Alive(s))
  /\ UNCHANGED <<files, rows, sessions>> /\ SameGhosts

Leaves(p) ==
  /\ \A s \in 1..MaxSessions :
       /\ held[s] = p => writer'[s] = NoWriter /\ ~Alive(s)'
       /\ held[s] # p => writer'[s] = writer[s] /\ (Alive(s)' <=> Alive(s))
       /\ held[s] = p /\ Clears(s) => SealedUnder(sessions[s]) \cap cleared' = {}
  /\ cleared' \subseteq cleared /\ unsettled \subseteq unsettled'
  /\ cleared \subseteq cleared' \cup unsettled'
  /\ \A b \in cleared \ cleared' : \E s \in 1..MaxSessions :
       held[s] = p /\ Clears(s) /\ b \in SealedUnder(sessions[s])
  /\ UNCHANGED <<files, rows, sessions, sealedIn, durable, collected>>

\* A step of the writer of s, or of the collector of p
Writes(s) ==
  /\ s \in 1..MaxSessions /\ Alive(s)
  /\ UNCHANGED <<sessions, held, sealedIn, cleared, unsettled, collected>>

Temps(s) ==
  /\ Writes(s) /\ UNCHANGED <<files, rows, durable>>
  /\ writer[s].pc = "idle" /\ writer[s].q # <<>> /\ writer[s].q[1] # 0
  /\ WriterBecomes(s, writer[s].q, "temp", writer[s].seq, writer[s].cursor, writer[s].id,
                   writer[s].todo)

Renames(s) ==
  Writes(s) /\ UNCHANGED <<rows, durable>> /\ writer[s].pc = "temp" /\ Filing(s)

Fails(s) ==
  /\ Writes(s) /\ UNCHANGED <<files, rows, durable>>
  /\ writer[s].pc \in {"temp", "renamed"} /\ writer[s].q # <<>>
  /\ WriterBecomes(s, Tail(writer[s].q), "idle", writer[s].seq, writer[s].cursor,
                   writer[s].id, writer[s].todo)

Inserts(s, c) ==
  /\ Writes(s) /\ files' = files /\ writer[s].pc = "renamed" /\ Inserted(s, c)
  /\ WriterBecomes(s, writer[s].q, "rowed", writer[s].seq, writer[s].cursor, NextRowId,
                   writer[s].todo)

Chips(s) ==
  /\ Writes(s) /\ UNCHANGED <<files, durable>> /\ writer[s].pc = "rowed"
  /\ writer[s].q # <<>> /\ writer[s].q[1] # 0
  /\ Relabeled(writer[s].id, writer[s].q[1])
  /\ WriterBecomes(s, Tail(writer[s].q), "idle", writer[s].seq + 1,
                   writer[s].cursor + LinesOf[writer[s].q[1]], writer[s].id, writer[s].todo)

ListsAll(s) ==
  /\ Writes(s) /\ UNCHANGED <<files, rows, durable>>
  /\ writer[s].pc = "idle" /\ writer[s].q # <<>> /\ writer[s].q[1] = 0
  /\ WriterBecomes(s, writer[s].q, "unlink", writer[s].seq, writer[s].cursor,
                   writer[s].id, Ordered(PaneRows(writer[s].row)))

UnlinksOne(s, i) == Writes(s) /\ UNCHANGED <<rows, durable>> /\ Unlinks(s, i)

UnlinkedAll(s) == Writes(s) /\ UNCHANGED <<rows, durable>> /\ NoneLeft(s)

Purges(s) ==
  /\ Writes(s) /\ UNCHANGED <<files, durable>>
  /\ writer[s].pc = "purge" /\ writer[s].q # <<>> /\ writer[s].todo # <<>>
  /\ rows' = {c \in rows : c.id # writer[s].todo[1].id}
  /\ WriterBecomes(s, writer[s].q, "purge", writer[s].seq, writer[s].cursor,
                   writer[s].id, Tail(writer[s].todo))

Purged(s) ==
  /\ Writes(s) /\ UNCHANGED <<files, rows, durable>>
  /\ writer[s].pc = "purge" /\ writer[s].q # <<>> /\ writer[s].todo = <<>>
  /\ WriterBecomes(s, Tail(writer[s].q), "idle", 1, 0, writer[s].id, writer[s].todo)

Takes(p) ==
  /\ gc[p].pc = "apply" /\ gc[p].todo # <<>>
  /\ UNCHANGED <<writer, sessions, sealedIn, durable, cleared, unsettled>>
  /\ \A s \in 1..MaxSessions : Alive(s)' <=> Alive(s)

TakesFile(p, x) ==
  /\ Takes(p) /\ x = Path(gc[p].todo[1]) /\ x \in DOMAIN files /\ Unfiled(x)
  /\ rows' = rows /\ collected' = collected \cup {files[x]}

TakesRow(p) ==
  /\ Takes(p) /\ Path(gc[p].todo[1]) \notin DOMAIN files
  /\ GcBecomes(p, gc[p].pc, gc[p].rows, gc[p].latest, gc[p].dead, gc[p].probing,
               Tail(gc[p].todo))
  /\ rows' = {c \in rows : c.id # gc[p].todo[1].id}
  /\ UNCHANGED <<files, collected>>

WriterShape(s) ==
  \/ Temps(s) \/ Renames(s) \/ Fails(s) \/ (\E c : Inserts(s, c)) \/ Chips(s)
  \/ ListsAll(s) \/ (\E i : UnlinksOne(s, i)) \/ UnlinkedAll(s) \/ Purges(s) \/ Purged(s)

Shape ==
  \/ Rests
  \/ \E p \in Procs : \/ (\E i : Seals(p, i)) \/ Wakes(p) \/ Leaves(p)
                      \/ (\E x : TakesFile(p, x)) \/ TakesRow(p)
  \/ \E s : Discards(s) \/ WriterShape(s)

\* Nobody restarts, discards or launches while a collector works, nobody opens
\* a workspace twice or clears a dead pane, and chips are inserted when their
\* row could be.
CalmUser ==
  /\ ~Can("hasty") /\ ~Can("overlap") /\ ~Can("dual")
  /\ ~Can("fail_chips") /\ ~Can("clear_dead")

-----------------------------------------------------------------------------
\* Where a pane's tab comes from

\* It was there, with the same blocks.
Carries(p, i, j) ==
  /\ j \in DOMAIN tabs[p] /\ tabs[p][j].row # 0
  /\ tabs'[p][i].row = tabs[p][j].row /\ tabs'[p][i].mem = tabs[p][j].mem
  /\ tabs'[p][i].session # 0 => \/ tabs'[p][i].session = tabs[p][j].session
                                \/ writer'[tabs'[p][i].session].q = <<>>
  /\ \/ Closing(p, i)'
     \/ ~Closing(p, j) /\ cleared' \cap SealedUnder(tabs[p][j].row) \subseteq cleared
  /\ cleared \cap SealedUnder(tabs[p][j].row) \subseteq cleared'
  /\ sealedIn' = sealedIn \/ sealedIn'[Len(sealedIn) + 1] # tabs[p][j].row

\* It shows nothing, and nothing is stored for it that was not cleared.
Blank(p, i) ==
  /\ tabs'[p][i].mem = <<>>
  /\ \/ \A b \in 1..Len(sealedIn') : sealedIn'[b] = tabs'[p][i].row => b \in cleared'
     \/ /\ \A c \in rows' : c.pane # tabs'[p][i].row
        /\ writer'[tabs'[p][i].session].q = <<>>

\* It has been restored.
Restored(p, i) ==
  /\ tabs'[p][i].session = 0 /\ UNCHANGED <<rows, files>> /\ SameGhosts
  /\ \E r : /\ r = tabs'[p][i].row /\ tabs'[p][i].mem = RestoredBlocks(r)
            /\ \A s \in 1..MaxSessions : Alive(s) => sessions[s] # r

\* A block has been sealed in it.
Appended(p, i) ==
  /\ i \in DOMAIN tabs[p] /\ tabs'[p][i].row = tabs[p][i].row
  /\ tabs'[p][i].session = tabs[p][i].session
  /\ tabs'[p][i].mem = Append(tabs[p][i].mem, Len(sealedIn) + 1)
  /\ Seals(p, i) /\ ~Closing(p, i)

TabFrom(p, i) ==
  (\E j : Carries(p, i, j)) \/ Blank(p, i) \/ Restored(p, i) \/ Appended(p, i)

-----------------------------------------------------------------------------
\* The invariants

\* What is stored for a pane, or waits for its writer, was sealed in it.
PaneBlocks ==
  /\ \A r : \A b \in Stored(r) : b \in SealedUnder(r)
  /\ \A p \in Procs : \A i \in DOMAIN tabs[p] : tabs[p][i].session # 0 =>
       \A k \in DOMAIN writer[tabs[p][i].session].q :
         writer[tabs[p][i].session].q[k] # 0 =>
           writer[tabs[p][i].session].q[k] \in SealedUnder(tabs[p][i].row)

GcInv ==
  /\ Types /\ Own /\ QueuesOK
  /\ CollectorsOK /\ GcStarts /\ GcSeen /\ GcDead /\ FreshRows /\ FilesOwn

DiskInv == GcInv /\ FilesOK /\ RowsOK /\ WritersRows /\ StartRows /\ ClearRows /\ GcRows

PromiseInv ==
  /\ DiskInv /\ KnownBlocks /\ QueuedIsNew /\ BlocksInOrder
  /\ StoredIsDurable /\ DurableIsStored /\ ClearsCover /\ ClearsAhead

ScreenInv == PromiseInv /\ MemOK /\ ShownIsStored /\ StoredIsShown
=============================================================================
