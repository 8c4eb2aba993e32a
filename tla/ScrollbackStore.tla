-------------------------- MODULE ScrollbackStore ---------------------------
(***************************************************************************)
(* The persisted scrollback (src/persist/, the session and chunk tables of *)
(* src/history/db.rs, and the calls of src/app.rs and src/pane.rs).        *)
(*                                                                         *)
(* Processes share one data directory: a database (sessions, panes, chunk  *)
(* rows, the saved layout) and chunk files.  In each process a UI thread   *)
(* opens, restarts, clears and closes panes; every live pane has a writer  *)
(* thread fed by a queue; one collector thread runs once after launch.     *)
(* Every step below is one file or database operation, so a crash or       *)
(* another process can come between any two.                               *)
(*                                                                         *)
(* A block is a number, in the order of the seals.  A chunk file is named  *)
(* by its session and sequence number; its content is the block.           *)
(***************************************************************************)
EXTENDS Integers, Sequences, FiniteSets, SequencesExt, Sublist

CONSTANTS
  Procs,         \* processes over one data directory
  Moves,         \* what users and the environment may do, see Can below
  MaxPanes,      \* bound: pane rows
  MaxSessions,   \* bound: session rows
  MaxLaunches,   \* bound: launches of a process, over the run
  LinesOf        \* LinesOf[b]: logical lines of block b; one entry per block

ASSUME StoreAssumption ==
  /\ {"free", "probe"} \cap Procs = {}
  /\ {MaxPanes, MaxSessions, MaxLaunches} \subseteq Nat
  /\ LinesOf \in Seq(Nat)

VARIABLES
  sessions,   \* table session: the pane row of each session id
  panes,      \* table pane: how many rows it has
  rows,       \* table scrollback_chunk, with the label its chips carry
  layout,     \* table window: the pane rows of the saved layout, in order
  files,      \* chunk files: path -> block
  tmps,       \* paths whose temporary file exists
  held,       \* the flock of each session directory
  writer,     \* the writer thread of each session
  gc,         \* the collector thread of each process
  ui,         \* what the UI thread of each process is in the middle of
  tabs,       \* the panes of each process, in order; <<>> if it is not running
  sealedIn,   \* history: the pane row each block was sealed under, 0 if none
  cleared,    \* history: blocks the user has discarded
  unsettled,  \* history: blocks whose discard a crash cut short
  durable,    \* history: blocks that got a file and a row
  collected,  \* history: blocks the collector removed
  launches    \* bound: see MaxLaunches

dbVars    == <<sessions, panes, rows, layout>>
diskVars  == <<files, tmps>>
ghostVars == <<sealedIn, cleared, unsettled, durable, collected>>
vars == <<dbVars, diskVars, held, writer, gc, ui, tabs, ghostVars, launches>>

Can(move) == move \in Moves

NoOp == [op |-> "idle", at |-> 0, row |-> 0, session |-> 0, start |-> 0]
NoGc == [pc |-> "off", rows |-> {}, latest |-> <<>>, dead |-> {}, probing |-> 0,
         todo |-> <<>>]
NoWriter == [q |-> <<>>, pc |-> "idle", seq |-> 1, cursor |-> 0,
             row |-> 0, id |-> 0, todo |-> <<>>]

Blocks   == 1..Len(LinesOf)
Running(p) == tabs[p] # <<>>
Owned(p) == {s \in 1..Len(sessions) : held[s] = p}

\* The rows of a pane in the order of the query: by first line, then by id.
Precedes(a, b) == a.start < b.start \/ (a.start = b.start /\ a.id < b.id)
Before(S, c)   == {d \in S : Precedes(d, c)}
Ordered(S) == [n \in 1..Cardinality(S) |->
                 CHOOSE c \in S : Cardinality(Before(S, c)) = n - 1]
PaneRows(r) == {c \in rows : c.pane = r}
Path(c) == <<c.session, c.seq>>

\* Mutant: the restore ends at the first row with no file.
RestoreUntilGap(r) ==
  LET all  == Ordered(PaneRows(r))
      good == {n \in 0..Len(all) : \A i \in 1..n : Path(all[i]) \in DOMAIN files}
      last == CHOOSE n \in good : \A k \in good : k <= n
  IN  [i \in 1..last |-> [block |-> files[Path(all[i])], label |-> all[i].label]]

\* restore_blocks_for_pane: the rows in order, those with no file skipped
Restore(r) ==
  LET found == Ordered({c \in PaneRows(r) : Path(c) \in DOMAIN files})
  IN  [i \in 1..Len(found) |->
         [block |-> files[Path(found[i])], label |-> found[i].label]]

RestoredBlocks(r) == [i \in 1..Len(Restore(r)) |-> Restore(r)[i].block]
MaxOf(S) == IF S = {} THEN 0 ELSE CHOOSE n \in S : \A k \in S : k <= n
MaxEndLine(r) == MaxOf({c.stop : c \in PaneRows(r)})
Latest(r) == MaxOf({s \in 1..Len(sessions) : sessions[s] = r})
HeldByProcess(s) == held[s] \in Procs

\* The database mutex of a process is kept while its collector deletes, and by
\* a writer between a row and its chips.
DbFree(p) == /\ gc[p].pc # "apply"
             /\ \A s \in Owned(p) : writer[s].pc # "rowed"

Init ==
  /\ sessions = <<>> /\ panes = 0 /\ rows = {} /\ layout = <<>>
  /\ files = <<>> /\ tmps = {}
  /\ held = [s \in 1..MaxSessions |-> "free"]
  /\ writer = [s \in 1..MaxSessions |-> NoWriter]
  /\ gc = [p \in Procs |-> NoGc]
  /\ ui = [p \in Procs |-> NoOp]
  /\ tabs = [p \in Procs |-> <<>>]
  /\ sealedIn = <<>> /\ cleared = {} /\ unsettled = {} /\ durable = {} /\ collected = {}
  /\ launches = 0

-----------------------------------------------------------------------------
\* Sessions

\* The first half of begin_session and resume_session: the rows.  `at` is the
\* tab the session is for, `r` its pane row, 0 for a fresh pane.
BeginRows(p, at, r) ==
  /\ Len(sessions) < MaxSessions
  /\ r # 0 \/ panes < MaxPanes
  /\ LET row == IF r = 0 THEN panes + 1 ELSE r
     IN  /\ panes' = IF r = 0 THEN panes + 1 ELSE panes
         /\ sessions' = Append(sessions, row)
         /\ ui' = [ui EXCEPT ![p] = [op |-> "start", at |-> at, row |-> row,
                     session |-> Len(sessions) + 1,
                     start |-> IF r = 0 THEN 0 ELSE MaxEndLine(r)]]

Resumed(u) == [NoWriter EXCEPT !.cursor = u.start, !.row = u.row]

\* The second half: the directory, its lock, and in spawn_managed the writer.
\* A lock held for an instant by a collector leaves the pane without a row.
TakeLock(p) ==
  /\ ui[p].op = "start"
  /\ LET u == ui[p]
         got == held[u.session] = "free"
         old == IF u.at <= Len(tabs[p]) THEN tabs[p][u.at].mem ELSE <<>>
         tab == [row |-> IF got THEN u.row ELSE 0,
                 session |-> IF got THEN u.session ELSE 0,
                 live |-> TRUE, mem |-> old]
     IN  /\ held' = IF got THEN [held EXCEPT ![u.session] = p] ELSE held
         /\ writer' = IF ~got THEN writer
                      ELSE [writer EXCEPT ![u.session] =
                              Resumed(u)]
         /\ tabs' = [tabs EXCEPT ![p] =
                       IF u.at <= Len(@) THEN [@ EXCEPT ![u.at] = tab]
                                         ELSE Append(@, tab)]
  /\ ui' = [ui EXCEPT ![p] = NoOp]
  /\ UNCHANGED <<dbVars, diskVars, gc, ghostVars, launches>>

-----------------------------------------------------------------------------
\* The process: launch, restart, tabs, quit, crash

\* plan_restore: a saved layout, none of whose panes a process holds
Restorable == layout # <<>> /\ \A i \in 1..Len(layout) :
                 Latest(layout[i]) = 0 \/ ~HeldByProcess(Latest(layout[i]))

\* A second process may find a workspace whose panes are all Dead in the first.
Adopts(p) == \E q \in Procs \ {p} : \E i \in 1..Len(tabs[q]) :
                \E k \in 1..Len(layout) : tabs[q][i].row = layout[k]

\* The collector acts late on what it saw early, by ids that are used again.
\* Unless a move says otherwise nobody restarts or discards while one is at work
\* ("hasty"), and no process starts while another one's is ("overlap").
Collecting == \E q \in Procs : gc[q].pc # "off"
Calm == Can("hasty") \/ ~Collecting
NoDiscards == \A s \in 1..MaxSessions : ~Contains(writer[s].q, 0)
NoStarts == \A q \in Procs : ui[q].op # "start"

StartGc(p) ==
  /\ Can("hasty") \/ (NoDiscards /\ NoStarts)
  /\ Can("overlap") \/ ~Collecting
  /\ gc' = [gc EXCEPT ![p] = IF Can("gc") THEN [NoGc EXCEPT !.pc = "list"]
                                            ELSE NoGc]

LaunchRestored(p) ==
  /\ ~Running(p) /\ ui[p] = NoOp /\ launches < MaxLaunches
  /\ Restorable
  /\ Can("dual") \/ ~Adopts(p)
  /\ tabs' = [tabs EXCEPT ![p] = [i \in 1..Len(layout) |->
                [row |-> layout[i], session |-> 0, live |-> FALSE,
                 mem |-> RestoredBlocks(layout[i])]]]
  /\ launches' = launches + 1
  /\ StartGc(p)
  /\ UNCHANGED <<dbVars, diskVars, held, writer, ui, ghostVars>>

LaunchFresh(p) ==
  /\ ~Running(p) /\ ui[p] = NoOp /\ launches < MaxLaunches
  /\ ~Restorable
  /\ BeginRows(p, 1, 0)
  /\ launches' = launches + 1
  /\ StartGc(p)
  /\ UNCHANGED <<rows, layout, diskVars, held, writer, tabs, ghostVars>>

UiIdle(p) == Running(p) /\ ui[p].op = "idle" /\ DbFree(p)

NewTab(p) ==
  /\ UiIdle(p) /\ Can("newtab")
  /\ BeginRows(p, Len(tabs[p]) + 1, 0)
  /\ UNCHANGED <<rows, layout, diskVars, held, writer, gc, tabs, ghostVars, launches>>

\* restart_pane: only a Dead pane; it keeps its row and its blocks
RestartPane(p, i) ==
  /\ UiIdle(p) /\ ~tabs[p][i].live
  /\ Calm
  /\ BeginRows(p, i, tabs[p][i].row)
  /\ UNCHANGED <<rows, layout, diskVars, held, writer, gc, tabs, ghostVars, launches>>

\* drain: a finished command's block goes to the pane's writer
SealBlock(p, i) ==
  /\ UiIdle(p) /\ tabs[p][i].live
  /\ Len(sealedIn) < Len(LinesOf)
  /\ LET b == Len(sealedIn) + 1
         s == tabs[p][i].session
     IN  /\ sealedIn' = Append(sealedIn, tabs[p][i].row)
         /\ tabs' = [tabs EXCEPT ![p][i].mem = Append(@, b)]
         /\ writer' = IF s = 0 THEN writer
                      ELSE [writer EXCEPT ![s].q = Append(@, b)]
  /\ UNCHANGED <<dbVars, diskVars, held, gc, ui, cleared, unsettled, durable, collected, launches>>

\* Clear is 0 in a queue.
SealedUnder(r) == {b \in 1..Len(sealedIn) : r # 0 /\ sealedIn[b] = r}
Discard(p, i) ==
  LET s == tabs[p][i].session
  IN  /\ writer' = IF s = 0 THEN writer ELSE [writer EXCEPT ![s].q = Append(@, 0)]
      /\ cleared' = cleared \cup SealedUnder(tabs[p][i].row)

\* Cmd+K
ClearScrollback(p, i) ==
  /\ UiIdle(p) /\ Can("clear") /\ Calm
  /\ tabs[p][i].live \/ Can("clear_dead")
  /\ tabs[p][i].mem # <<>>
  /\ Discard(p, i)
  /\ tabs' = [tabs EXCEPT ![p][i].mem = <<>>]
  /\ UNCHANGED <<dbVars, diskVars, held, gc, ui, sealedIn, unsettled, durable, collected, launches>>

\* Closing a tab queues a discard and joins the writer.
CloseTab(p, i) ==
  /\ UiIdle(p) /\ Can("close") /\ Calm /\ Len(tabs[p]) > 1
  /\ tabs[p][i].live \/ Can("clear_dead")
  /\ Discard(p, i)
  /\ ui' = [ui EXCEPT ![p] = [NoOp EXCEPT !.op = "close", !.at = i]]
  /\ UNCHANGED <<dbVars, diskVars, held, gc, tabs, sealedIn, unsettled, durable, collected, launches>>

Drained(s) == writer[s].q = <<>>

EndClose(p) ==
  /\ ui[p].op = "close"
  /\ LET s == tabs[p][ui[p].at].session
     IN  /\ s = 0 \/ Drained(s)
         /\ held' = IF s = 0 THEN held ELSE [held EXCEPT ![s] = "free"]
         /\ tabs' = [tabs EXCEPT ![p] = RemoveAt(@, ui[p].at)]
  /\ ui' = [ui EXCEPT ![p] = NoOp]
  /\ UNCHANGED <<dbVars, diskVars, writer, gc, ghostVars, launches>>

\* The rows of a process's panes: a pane without one is pruned.
Mapped(p) == LET t == Keep(tabs[p], {i \in DOMAIN tabs[p] : tabs[p][i].row # 0})
             IN  [i \in 1..Len(t) |-> t[i].row]
SavedLayout(p) == IF Mapped(p) = <<>> THEN layout ELSE Mapped(p)

\* persist_layout_now, some time after the tree changed
SaveLayout(p) ==
  /\ UiIdle(p) /\ SavedLayout(p) # layout
  /\ layout' = SavedLayout(p)
  /\ UNCHANGED <<sessions, panes, rows, diskVars, held, writer, gc, ui, tabs, ghostVars, launches>>

\* Cmd+Q with nothing to confirm
BeginQuit(p) ==
  /\ UiIdle(p) /\ Can("quit")
  /\ ui' = [ui EXCEPT ![p] = [NoOp EXCEPT !.op = "quit"]]
  /\ UNCHANGED <<dbVars, diskVars, held, writer, gc, tabs, ghostVars, launches>>

Gone(p) ==
  /\ tabs' = [tabs EXCEPT ![p] = <<>>]
  /\ ui' = [ui EXCEPT ![p] = NoOp]
  /\ gc' = [gc EXCEPT ![p] = NoGc]
  /\ held' = [s \in 1..MaxSessions |->
                IF held[s] = p \/ gc[p].probing = s THEN "free" ELSE held[s]]
  /\ writer' = [s \in 1..MaxSessions |->
                  IF held[s] = p THEN NoWriter ELSE writer[s]]

\* Mutant: the writers are not joined.
EndQuitAtOnce(p) ==
  /\ ui[p].op = "quit" /\ DbFree(p)
  /\ layout' = SavedLayout(p)
  /\ Gone(p)
  /\ UNCHANGED <<sessions, panes, rows, diskVars, ghostVars, launches>>

\* flush_persisted_writers, save_layout_on_quit, then the process ends
EndQuit(p) ==
  /\ ui[p].op = "quit" /\ DbFree(p)
  /\ \A s \in Owned(p) : Drained(s)
  /\ layout' = SavedLayout(p)
  /\ Gone(p)
  /\ UNCHANGED <<sessions, panes, rows, diskVars, ghostVars, launches>>

\* A crash loses the queues; a discard still queued is not promised.
Crash(p) ==
  /\ Can("crash") /\ (Running(p) \/ ui[p].op = "start")
  /\ Gone(p)
  /\ LET broken == {s \in Owned(p) : \E i \in 1..Len(writer[s].q) : writer[s].q[i] = 0}
         lost == UNION {SealedUnder(sessions[s]) : s \in broken}
     IN  cleared' = cleared \ lost /\ unsettled' = unsettled \cup lost
  /\ UNCHANGED <<dbVars, diskVars, sealedIn, durable, collected, launches>>

-----------------------------------------------------------------------------
\* The writer thread

W(s) == writer[s]
Put(path, b) == [x \in DOMAIN files \cup {path} |-> IF x = path THEN b ELSE files[x]]
Unlinked(path) == [x \in DOMAIN files \ {path} |-> files[x]]
NextRowId == MaxOf({c.id : c \in rows}) + 1   \* rowid: the largest plus one
Here(s) == <<s, W(s).seq>>

\* Err: the message is gone, the sequence number and the cursor stay
SealFails(s) == writer' = [writer EXCEPT ![s].pc = "idle", ![s].q = Tail(@)]

WriteTemp(s) ==
  /\ W(s).pc = "idle" /\ W(s).q # <<>> /\ Head(W(s).q) # 0
  /\ tmps' = tmps \cup {Here(s)}
  /\ writer' = [writer EXCEPT ![s].pc = "temp"]
  /\ UNCHANGED <<dbVars, files, held, gc, ui, tabs, ghostVars, launches>>

\* The temporary file may have been swept away in between.
Rename(s) ==
  /\ W(s).pc = "temp"
  /\ IF Here(s) \in tmps
       THEN /\ files' = Put(Here(s), Head(W(s).q))
            /\ tmps' = tmps \ {Here(s)}
            /\ writer' = [writer EXCEPT ![s].pc = "renamed"]
       ELSE SealFails(s) /\ UNCHANGED diskVars
  /\ UNCHANGED <<dbVars, held, gc, ui, tabs, ghostVars, launches>>

InsertRow(s) ==
  /\ W(s).pc = "renamed" /\ DbFree(held[s])
  /\ rows' = rows \cup {[id |-> NextRowId, session |-> s, pane |-> W(s).row,
                         seq |-> W(s).seq, start |-> W(s).cursor,
                         stop |-> W(s).cursor + LinesOf[Head(W(s).q)], label |-> 0]}
  /\ writer' = [writer EXCEPT ![s].pc = "rowed", ![s].id = NextRowId]
  /\ durable' = durable \cup {Head(W(s).q)}
  /\ UNCHANGED <<sessions, panes, layout, diskVars, held, gc, ui, tabs,
                 sealedIn, cleared, unsettled, collected, launches>>

\* Mutant: a block without lines does not take a sequence number.
InsertChipsOfLines(s) ==
  /\ W(s).pc = "rowed"
  /\ LET b == Head(W(s).q)
     IN  /\ rows' = {IF c.id = W(s).id THEN [c EXCEPT !.label = b] ELSE c : c \in rows}
         /\ writer' = [writer EXCEPT ![s].pc = "idle", ![s].q = Tail(@),
                         ![s].seq = IF LinesOf[b] > 0 THEN @ + 1 ELSE @,
                         ![s].cursor = @ + LinesOf[b]]
  /\ UNCHANGED <<sessions, panes, layout, diskVars, held, gc, ui, tabs, ghostVars, launches>>

\* The chips are put on the row just inserted, whatever became of it.
InsertChips(s) ==
  /\ W(s).pc = "rowed"
  /\ LET b == Head(W(s).q)
     IN  /\ rows' = {IF c.id = W(s).id THEN [c EXCEPT !.label = b] ELSE c : c \in rows}
         /\ writer' = [writer EXCEPT ![s].pc = "idle", ![s].q = Tail(@),
                         ![s].seq = @ + 1, ![s].cursor = @ + LinesOf[b]]
  /\ UNCHANGED <<sessions, panes, layout, diskVars, held, gc, ui, tabs, ghostVars, launches>>

\* A write, a rename or an insert that fails: disk full, database busy.  A row
\* whose chips fail stays, and its file name is used again.
WriteFails(s) ==
  /\ \/ Can("fail") /\ W(s).pc \in {"temp", "renamed"}
     \/ Can("fail_chips") /\ W(s).pc = "rowed"
  /\ SealFails(s)
  /\ UNCHANGED <<dbVars, diskVars, held, gc, ui, tabs, ghostVars, launches>>

\* Mutant: only the rows of the writer's own session.
ListForClearOfSession(s) ==
  /\ W(s).pc = "idle" /\ W(s).q # <<>> /\ Head(W(s).q) = 0 /\ DbFree(held[s])
  /\ writer' = [writer EXCEPT ![s].pc = "unlink",
                  ![s].todo = Ordered({c \in rows : c.session = s})]
  /\ UNCHANGED <<dbVars, diskVars, held, gc, ui, tabs, ghostVars, launches>>

\* clear_pane_chunks: the rows of every session of the pane, their files, they
ListForClear(s) ==
  /\ W(s).pc = "idle" /\ W(s).q # <<>> /\ Head(W(s).q) = 0 /\ DbFree(held[s])
  /\ writer' = [writer EXCEPT ![s].pc = "unlink", ![s].todo = Ordered(PaneRows(W(s).row))]
  /\ UNCHANGED <<dbVars, diskVars, held, gc, ui, tabs, ghostVars, launches>>

UnlinkForClear(s) ==
  /\ W(s).pc = "unlink"
  /\ LET left == {i \in DOMAIN W(s).todo : Path(W(s).todo[i]) \in DOMAIN files}
     IN  \/ \E i \in left : /\ \A j \in left : i <= j
                           /\ files' = Unlinked(Path(W(s).todo[i]))
                           /\ UNCHANGED writer
         \/ /\ left = {}
            /\ writer' = [writer EXCEPT ![s].pc = "purge"]
            /\ UNCHANGED files
  /\ UNCHANGED <<dbVars, tmps, held, gc, ui, tabs, ghostVars, launches>>

DeleteForClear(s) ==
  /\ W(s).pc = "purge" /\ DbFree(held[s])
  /\ IF W(s).todo # <<>>
       THEN /\ rows' = {c \in rows : c.id # Head(W(s).todo).id}
            /\ writer' = [writer EXCEPT ![s].todo = Tail(@)]
       ELSE /\ writer' = [writer EXCEPT ![s].pc = "idle", ![s].q = Tail(@),
                            ![s].seq = 1, ![s].cursor = 0]
            /\ UNCHANGED rows
  /\ UNCHANGED <<sessions, panes, layout, diskVars, held, gc, ui, tabs, ghostVars, launches>>

WriterStep(s) ==
  \/ WriteTemp(s) \/ Rename(s) \/ InsertRow(s) \/ InsertChips(s) \/ WriteFails(s)
  \/ ListForClear(s) \/ UnlinkForClear(s) \/ DeleteForClear(s)

-----------------------------------------------------------------------------
\* The collector thread

ListChunks(p) ==
  /\ gc[p].pc = "list" /\ ui[p].op # "start"
  /\ LET seen == {c.pane : c \in rows}
     IN  gc' = [gc EXCEPT ![p].pc = "probe", ![p].rows = rows,
                  ![p].latest = [r \in seen |-> Latest(r)]]
  /\ UNCHANGED <<dbVars, diskVars, held, writer, ui, tabs, ghostVars, launches>>

Unprobed(p) == DOMAIN gc[p].latest
Forget(f, r) == [x \in DOMAIN f \ {r} |-> f[x]]

\* session_is_live, free: the collector holds the lock for an instant
ProbeFree(p, r) ==
  /\ gc[p].pc = "probe" /\ gc[p].probing = 0
  /\ held[gc[p].latest[r]] = "free"
  /\ held' = [held EXCEPT ![gc[p].latest[r]] = "probe"]
  /\ gc' = [gc EXCEPT ![p].probing = gc[p].latest[r], ![p].dead = @ \cup {r},
              ![p].latest = Forget(@, r)]
  /\ UNCHANGED <<dbVars, diskVars, writer, ui, tabs, ghostVars, launches>>

EndProbe(p) ==
  /\ gc[p].pc = "probe" /\ gc[p].probing # 0
  /\ held' = [held EXCEPT ![gc[p].probing] = "free"]
  /\ gc' = [gc EXCEPT ![p].probing = 0]
  /\ UNCHANGED <<dbVars, diskVars, writer, ui, tabs, ghostVars, launches>>

\* held by a process, or not there yet: taken for live
ProbeLive(p, r) ==
  /\ gc[p].pc = "probe" /\ gc[p].probing = 0
  /\ LET s == gc[p].latest[r]
     IN  HeldByProcess(s) \/ \E q \in Procs : ui[q].op = "start" /\ ui[q].session = s
  /\ gc' = [gc EXCEPT ![p].latest = Forget(@, r)]
  /\ UNCHANGED <<dbVars, diskVars, held, writer, ui, tabs, ghostVars, launches>>

\* The collector goes by the blocks' end times, which are the clock's: any order.
Listings(S) == {s \in [1..Cardinality(S) -> S] : IsInjective(s)}

\* Mutant: a cap that looks at every chunk.
ChooseDoomedOfAll(p) ==
  /\ gc[p].pc = "probe" /\ gc[p].probing = 0 /\ Unprobed(p) = {}
  /\ \E doomed \in SUBSET gc[p].rows : \E todo \in Listings(doomed) :
       gc' = [gc EXCEPT ![p].pc = "apply", ![p].todo = todo]
  /\ UNCHANGED <<dbVars, diskVars, held, writer, ui, tabs, ghostVars, launches>>

\* The age and the two caps may choose any chunks of dead panes (GcCaps).
ChooseDoomed(p) ==
  /\ gc[p].pc = "probe" /\ gc[p].probing = 0 /\ Unprobed(p) = {}
  /\ \E doomed \in SUBSET {c \in gc[p].rows : c.pane \in gc[p].dead} :
       \E todo \in Listings(doomed) :
         gc' = [gc EXCEPT ![p].pc = "apply", ![p].todo = todo]
  /\ UNCHANGED <<dbVars, diskVars, held, writer, ui, tabs, ghostVars, launches>>

\* The file, then (DeleteRow) the row with that id.
DeleteFile(p) ==
  /\ gc[p].pc = "apply" /\ gc[p].todo # <<>> /\ Path(Head(gc[p].todo)) \in DOMAIN files
  /\ files' = Unlinked(Path(Head(gc[p].todo)))
  /\ collected' = collected \cup {files[Path(Head(gc[p].todo))]}
  /\ UNCHANGED <<dbVars, tmps, held, writer, gc, ui, tabs, sealedIn, cleared, unsettled, durable, launches>>

DeleteRow(p) ==
  /\ gc[p].pc = "apply" /\ gc[p].todo # <<>>
  /\ Path(Head(gc[p].todo)) \notin DOMAIN files
  /\ rows' = {c \in rows : c.id # Head(gc[p].todo).id}
  /\ gc' = [gc EXCEPT ![p].todo = Tail(@)]
  /\ UNCHANGED <<sessions, panes, layout, diskVars, held, writer, ui, tabs, ghostVars, launches>>

\* cleanup_tmp_files: every temporary file under the root, whoever wrote it
SweepTemps(p) ==
  /\ gc[p].pc = "apply" /\ gc[p].todo = <<>>
  /\ tmps' = {}
  /\ gc' = [gc EXCEPT ![p] = NoGc]
  /\ UNCHANGED <<dbVars, files, held, writer, ui, tabs, ghostVars, launches>>

GcStep(p) ==
  \/ ListChunks(p) \/ EndProbe(p) \/ ChooseDoomed(p)
  \/ DeleteFile(p) \/ DeleteRow(p) \/ SweepTemps(p)
  \/ \E r \in Unprobed(p) : ProbeFree(p, r) \/ ProbeLive(p, r)

-----------------------------------------------------------------------------
\* The whole

UserStep(p) ==
  \/ LaunchRestored(p) \/ LaunchFresh(p) \/ NewTab(p) \/ SaveLayout(p) \/ BeginQuit(p)
  \/ \E i \in 1..Len(tabs[p]) :
       RestartPane(p, i) \/ SealBlock(p, i) \/ ClearScrollback(p, i) \/ CloseTab(p, i)

UiEnds(p) == TakeLock(p) \/ EndClose(p) \/ EndQuit(p)

Next ==
  \/ \E p \in Procs : UserStep(p) \/ UiEnds(p) \/ Crash(p) \/ GcStep(p)
  \/ \E s \in 1..Len(sessions) : held[s] \in Procs /\ WriterStep(s)

Spec == Init /\ [][Next]_vars

-----------------------------------------------------------------------------
\* Properties


TypeOK ==
  /\ sessions \in Seq(1..MaxPanes) /\ Len(sessions) <= MaxSessions
  /\ panes \in 0..MaxPanes
  /\ \A c \in rows : c.session \in DOMAIN sessions /\ sessions[c.session] = c.pane
  /\ DOMAIN files \subseteq (1..MaxSessions) \X (1..Len(LinesOf))
  /\ tmps \subseteq (1..MaxSessions) \X (1..Len(LinesOf))
  /\ held \in [1..MaxSessions -> Procs \cup {"free", "probe"}]
  /\ \A s \in 1..MaxSessions : writer[s].row # 0 => writer[s].row = sessions[s]
  /\ \A p \in Procs : \A i \in DOMAIN tabs[p] : tabs[p][i].row \in 0..panes

\* Between two frames, with its queue empty, the writer of a live pane has on
\* disk what the pane shows: the same blocks in the same order, less those that
\* could not be written, under their own labels or (a crash) under none.
ScreenIsStored ==
  \A p \in Procs : \A i \in DOMAIN tabs[p] :
    LET t == tabs[p][i]
    IN  t.session # 0 /\ Drained(t.session) /\ ui[p].op = "idle" =>
          /\ RestoredBlocks(t.row) =
               Keep(t.mem, {k \in DOMAIN t.mem : t.mem[k] \in durable \ collected})
          /\ \A k \in DOMAIN Restore(t.row) :
               Restore(t.row)[k].label \in {0, Restore(t.row)[k].block}

\* Once the discard of a pane has been carried out, nothing of what the user
\* cleared or closed comes back on a restore, crashes and restarts included.
ClearPending(r) == \E s \in 1..MaxSessions : writer[s].row = r /\ Contains(writer[s].q, 0)
ClearedStaysCleared ==
  \A r \in 1..panes : ~ClearPending(r) => ToSet(RestoredBlocks(r)) \cap cleared = {}

\* What was written stays restorable, under the pane it was sealed in, until
\* the user discards it or the collector takes it.
DurableUntilDiscarded ==
  \A b \in durable \ (cleared \cup unsettled \cup collected) :
    Contains(RestoredBlocks(sealedIn[b]), b)

\* A collection never takes a block of a pane that a process has open and live.
CollectsNoneAlive ==
  [][\A b \in collected' \ collected : \A p \in Procs : \A i \in DOMAIN tabs[p] :
       tabs[p][i].live => tabs[p][i].row # sealedIn[b]]_vars

\* A saved workspace is open in one process at a time.
NoPaneInTwoProcesses ==
  \A p, q \in Procs : p # q => ToSet(Mapped(p)) \cap ToSet(Mapped(q)) = {}

\* What each pane would show after a restart changes only by one block at its
\* end or by blocks that go; see Transcript.
Shown == [r \in 1..MaxPanes |-> RestoredBlocks(r)]
Promise == INSTANCE Transcript WITH Panes <- 1..MaxPanes, Blocks <- Blocks,
                                    out <- Shown, used <- durable
ImplementsTranscript == Promise!Spec
=============================================================================
