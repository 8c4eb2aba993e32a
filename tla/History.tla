------------------------------- MODULE History ------------------------------
(***************************************************************************)
(* The command history: the runs table that every pane of every process    *)
(* writes (src/history/capture.rs, db.rs), the replay of the shells' own   *)
(* history files into it at each start (replay.rs), the trim of the        *)
(* collector, and the overlay that searches it (history_overlay.rs,        *)
(* search.rs).  The walk of the arrows is in PromptEditor.                 *)
(*                                                                         *)
(* A command is its text; a text is the sequence of its words.             *)
(***************************************************************************)
EXTENDS Integers, Sequences, FiniteSets, SequencesExt, FiniteSetsExt, Functions, Sublist

CONSTANTS
  HistProcs,   \* processes that share the database
  HistTexts,   \* commands
  HistFaults,  \* "busy": a write fails; "degraded": panes without a durable
               \* row; "overrun": a write fails while a run is unfinished
  MaxClock,    \* bound: how often the clock ticks
  OverlayFrom, \* bound: the time from which the overlay is opened
  MaxRuns,     \* bound: how many app runs there are
  RunsCap      \* GcCaps::runs

ASSUME HistoryAssumption == \A t \in HistTexts : t \in Seq(STRING)

VARIABLES
  rows,      \* the runs table: a set of records with their id
  shelf,     \* the shells' history files: per shell, the lines as they were added
  apps,      \* per process: down, or its app_run_id and the lines left to replay
  panes,     \* CaptureState and identity of every pane in a running process
  overlay,   \* HistoryOverlay
  clock, launched  \* bounds: the time, and how many app runs there have been

historyVars == <<rows, shelf, apps, panes, overlay, clock, launched>>

Null == 0
Down == [run |-> Null, left |-> <<>>]
Closed == [open |-> FALSE]

-----------------------------------------------------------------------------
\* The table

\* INTEGER PRIMARY KEY: one more than the greatest id there is.
NextIds == {id \in {1} \cup {r.id + 1 : r \in rows} : \A r \in rows : r.id < id}

Newest(r, s) == r.ts > s.ts \/ (r.ts = s.ts /\ r.id > s.id)

\* The members of S, each behind those that `before` puts before it.
Ordered(S, before) ==
  [k \in 1..Cardinality(S) |->
     CHOOSE x \in S : Cardinality({y \in S : <<y, x>> \in before}) = k - 1]

\* recent: by started_at, descending
Recent(S) == Ordered(S, {rs \in S \X S : Newest(rs[1], rs[2])})

\* Mutant: a pane id without the run that minted it.
PaneRowsOfAnyRun(p) ==
  {r \in rows : IF p.db # Null THEN r.db = p.db ELSE r.pane = p.id}

\* Scope::pane_recall: the durable pane, or else the pane of this app run.
PaneRows(p) ==
  {r \in rows : IF p.db # Null THEN r.db = p.db ELSE r.pane = p.id /\ r.run = p.run}

Insert(r) == rows' = rows \cup {r}

\* Mutant: every replay inserts.
RecordReplayedAgain(line) ==
  \E id \in NextIds :
    Insert([id |-> id, text |-> line.text, ts |-> line.ts, src |-> line.src, run |-> Null,
            pane |-> Null, db |-> Null, cwd |-> Null, exit |-> <<>>, of |-> line.at])

\* record_replayed: INSERT OR IGNORE under the unique (source, text, started_at).
RecordReplayed(line) ==
  IF \E r \in rows : r.src = line.src /\ r.text = line.text /\ r.ts = line.ts
    THEN UNCHANGED rows
    ELSE \E id \in NextIds :
           Insert([id |-> id, text |-> line.text, ts |-> line.ts, src |-> line.src, run |-> Null,
                   pane |-> Null, db |-> Null, cwd |-> Null, exit |-> <<>>, of |-> line.at])

\* A line of zsh carries its time; one of bash its place in the file, negated.
LinesOf(sh) ==
  [i \in DOMAIN shelf[sh] |->
    [src |-> sh, text |-> shelf[sh][i].text, at |-> i,
     ts |-> IF sh = "bash" THEN -i ELSE shelf[sh][i].ts]]

-----------------------------------------------------------------------------
\* The overlay

\* rank: the entries that hold every word of the query; those run in the pane's
\* directory first, then those with more of its words, in its order, newer.
Holds(e, query) == ToSet(query) \subseteq ToSet(e.text)
Hits(e, query) == Cardinality({i \in DOMAIN e.text : e.text[i] \in ToSet(query)})
InOrder(e, query) == SelectSeq(e.text, LAMBDA w : w \in ToSet(query)) = query
Here(e, cwd) == cwd # Null /\ e.cwd = cwd

Better(e, f, query, cwd) ==
  \/ Here(e, cwd) /\ ~Here(f, cwd)
  \/ /\ Here(e, cwd) <=> Here(f, cwd)
     /\ \/ Hits(e, query) > Hits(f, query)
        \/ /\ Hits(e, query) = Hits(f, query)
           /\ \/ InOrder(e, query) /\ ~InOrder(f, query)
              \/ (InOrder(e, query) <=> InOrder(f, query)) /\ Newest(e, f)
Rank(entries, query, cwd) ==
  LET found == {i \in DOMAIN entries : Holds(entries[i], query)}
  IN  Ordered(found, {ij \in found \X found :
                        Better(entries[ij[1]], entries[ij[2]], query, cwd)})

\* dedupe_by_text: the first of each text
Deduped(entries) ==
  Keep(entries, {i \in DOMAIN entries : \A j \in 1..i - 1 : entries[j].text # entries[i].text})

Listed(p, scope) == Deduped(Recent(IF scope = "global" THEN rows ELSE PaneRows(p)))

Reranked(o, cwd) == [o EXCEPT !.ranked = Rank(o.entries, o.query, cwd), !.sel = 1]

Toggled(o, p) ==
  LET scope == IF o.scope = "global" THEN "pane" ELSE "global"
  IN  Reranked([o EXCEPT !.scope = scope, !.entries = Listed(p, scope)], p.cwd)

Stepped(o, step) ==
  [o EXCEPT !.sel = IF step > 0 THEN Min({@ + 1, Max({@, Len(o.ranked)})}) ELSE Max({@ - 1, 1})]

-----------------------------------------------------------------------------
\* Panes

Panes == DOMAIN panes
Live(app) == {k \in Panes : k[1] = app}
Tick == clock < MaxClock /\ clock' = clock + 1
Set(k, p) == panes' = [panes EXCEPT ![k] = p]

\* A pane of this app run: its id counts from 1 again, its durable row does not.
Opened(a, id, db, cwd) ==
  [run |-> apps[a].run, id |-> id, db |-> db, cwd |-> cwd, current |-> Null, doing |-> <<>>]

HistoryInit ==
  /\ rows = {}
  /\ shelf = [sh \in {"bash", "zsh"} |-> <<>>]
  /\ apps = [a \in HistProcs |-> Down]
  /\ panes = << >>
  /\ overlay = Closed
  /\ clock = 1 /\ launched = 0

\* The user works in a shell outside.
ShelfGrows ==
  /\ Tick
  /\ \E sh \in DOMAIN shelf, t \in HistTexts :
       shelf' = [shelf EXCEPT ![sh] = Append(@, [text |-> t, ts |-> clock])]
  /\ UNCHANGED <<rows, apps, panes, overlay, launched>>

\* init_history_store reads the files as they are, then inserts line by line.
Launch ==
  /\ launched < MaxRuns /\ launched' = launched + 1
  /\ \E a \in HistProcs :
       apps[a] = Down /\ apps' = [apps EXCEPT ![a] = [run |-> launched + 1, left |-> LinesOf("zsh") \o LinesOf("bash")]]
  /\ UNCHANGED <<rows, shelf, panes, overlay, clock>>
Replay ==
  /\ \E a \in HistProcs :
       /\ apps[a].left # <<>>
       /\ apps' = [apps EXCEPT ![a].left = Tail(@)]
       /\ RecordReplayed(Head(apps[a].left))
  /\ UNCHANGED <<shelf, panes, overlay, clock, launched>>

\* A pane comes with a durable row, that one process shows at a time, or, when
\* nothing is persisted, without.
OpenPane ==
  /\ \E a \in HistProcs, id \in 1..2 : \E db \in {id} \cup (IF "degraded" \in HistFaults THEN {Null} ELSE {}) :
       /\ apps[a].run # Null /\ apps[a].left = <<>> /\ <<a, id>> \notin Panes
       /\ db # Null => \A k \in Panes : panes[k].db # db
       /\ panes' = [k \in Panes \cup {<<a, id>>} |->
                      IF k \in Panes THEN panes[k] ELSE Opened(a, id, db, id)]
  /\ UNCHANGED <<rows, shelf, apps, overlay, clock, launched>>

\* Quit, crash, or Restart of one pane: what runs is never finished.
Exit ==
  /\ \E a \in HistProcs :
       /\ apps[a].run # Null
       /\ apps' = [apps EXCEPT ![a] = Down]
       /\ panes' = Restrict(panes, Panes \ Live(a))
  /\ overlay' = Closed
  /\ UNCHANGED <<rows, shelf, clock, launched>>

\* capture::on_event: the command before may never have finished. A failed insert
\* leaves the id of the run before, if one is held.
Preexec ==
  /\ Tick
  /\ \E k \in Panes, t \in HistTexts :
       \/ \E id \in NextIds :
            /\ Insert([id |-> id, text |-> t, ts |-> clock, src |-> "termica",
                       run |-> panes[k].run, pane |-> panes[k].id, db |-> panes[k].db,
                       cwd |-> panes[k].cwd, exit |-> <<>>, of |-> <<k, clock>>])
            /\ Set(k, [panes[k] EXCEPT !.current = id, !.doing = <<k, clock>>])
       \/ /\ "busy" \in HistFaults
          /\ "overrun" \in HistFaults \/ panes[k].doing = <<>> \/ panes[k].current = Null
          /\ UNCHANGED rows /\ Set(k, [panes[k] EXCEPT !.doing = <<k, clock>>])
  /\ UNCHANGED <<shelf, apps, overlay, launched>>

\* Mutant: the id is read and not taken.
FinishedKeeps(p) == [p EXCEPT !.doing = <<>>]
Finished(p) == [p EXCEPT !.doing = <<>>, !.current = Null]

CommandFinished ==
  /\ \E k \in Panes :
       /\ panes[k].doing # <<>>
       /\ Set(k, Finished(panes[k]))
       /\ \/ rows' = {IF r.id = panes[k].current THEN [r EXCEPT !.exit = panes[k].doing] ELSE r :
                      r \in rows}
          \/ "busy" \in HistFaults /\ UNCHANGED rows
  /\ UNCHANGED <<shelf, apps, overlay, clock, launched>>

\* gc: trim_runs_to_newest
Trim ==
  /\ Cardinality(rows) > RunsCap
  /\ \E a \in HistProcs : apps[a].run # Null /\ apps[a].left = <<>>
  /\ \E kept \in kSubset(RunsCap, rows) :
       (\A r \in kept, s \in rows \ kept : Newest(r, s)) /\ rows' = kept
  /\ UNCHANGED <<shelf, apps, panes, overlay, clock, launched>>

-----------------------------------------------------------------------------
\* The overlay of one pane

OpenOverlay ==
  /\ overlay = Closed
  /\ clock >= OverlayFrom
  /\ \E k \in Panes, query \in {<<>>} \cup HistTexts :
       overlay' = Reranked([open |-> TRUE, pane |-> k, scope |-> "global", query |-> query, sel |-> 1,
                            entries |-> Listed(panes[k], "global"), ranked |-> <<>>],
                           IF query = <<>> THEN Null ELSE panes[k].cwd)
  /\ UNCHANGED <<rows, shelf, apps, panes, clock, launched>>
UseOverlay ==
  /\ overlay.open
  /\ LET p == panes[overlay.pane]
     IN  \/ \E query \in HistTexts :
              query # overlay.query /\ overlay' = Reranked([overlay EXCEPT !.query = query], p.cwd)
         \/ overlay' = Toggled(overlay, p)
         \/ \E step \in {1, -1} : overlay' = Stepped(overlay, step)
         \/ overlay' = Closed
  /\ UNCHANGED <<rows, shelf, apps, panes, clock, launched>>

HistoryNext ==
  \/ ShelfGrows \/ Launch \/ Replay \/ OpenPane \/ Exit
  \/ Preexec \/ CommandFinished \/ Trim \/ OpenOverlay \/ UseOverlay

HistorySpec == HistoryInit /\ [][HistoryNext]_historyVars

-----------------------------------------------------------------------------
\* Properties

HistoryTypeOK ==
  /\ \A r, s \in rows : r.id = s.id => r = s
  /\ \A a \in HistProcs : apps[a].run \in 0..MaxRuns
  /\ clock \in 1..MaxClock
  /\ overlay.open => overlay.sel = 1 \/ overlay.sel \in DOMAIN overlay.ranked

\* An exit code is stamped on the run of the command that ended with it, though
\* inserts and stamps may fail, rows are trimmed and their ids used again.
ExitIsOfItsRun == \A r \in rows : r.exit # <<>> => r.exit = r.of

\* No two open panes recall the same run, though pane ids begin again in every
\* process and a pane without a durable row is known by nothing else
\* (Scope::pane_recall).
RecallIsOwn ==
  \A j, k \in Panes : j # k => PaneRows(panes[j]) \cap PaneRows(panes[k]) = {}

\* A line of a shell's file is one run, however often and by however many
\* processes it is replayed.
ReplayIsIdempotent ==
  \A r, s \in rows : r.src # "termica" /\ r.src = s.src /\ r.of = s.of => r = s

\* The overlay lists what its label says, each command once, and its rows are
\* rows of that list (history_overlay.rs: toggle_scope, rerank).
OverlayShowsItsScope ==
  overlay.open =>
    /\ ToSet(overlay.ranked) \subseteq DOMAIN overlay.entries
    /\ \A i, j \in DOMAIN overlay.entries :
         overlay.entries[i].text = overlay.entries[j].text => i = j
    /\ overlay.scope = "pane" => \A e \in ToSet(overlay.entries) : e.src = "termica"

\* No two panes recall the same run, and the overlay lists what its label says
\* (recall.rs, history_overlay.rs).
RecallIsExact == RecallIsOwn /\ OverlayShowsItsScope

\* The rows of one file come newest first (recent: "newest first").
NewestFirst ==
  LET all == Recent(rows)
  IN  \A i, j \in DOMAIN all :
        all[i].src = all[j].src /\ all[i].src # "termica" /\ i < j => all[i].of > all[j].of
=============================================================================
