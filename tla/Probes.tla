-------------------------------- MODULE Probes --------------------------------
(***************************************************************************)
(* The two background probes of a pane, one for git (git_probe.rs) and one *)
(* for the pull request of the branch (gh_probe.rs): a request channel, a  *)
(* worker thread, a result channel, and the context the chips are drawn    *)
(* from.  Directories and branches are model values; what git and gh print *)
(* is abstracted to the branch and to the branch whose pull request it is. *)
(***************************************************************************)
EXTENDS Integers, SequencesExt

CONSTANTS Dirs,        \* directories the pane may be in
          Repo,        \* those inside a repository
          Branches,    \* branches
          WithPr,      \* those with an open pull request
          ChipMoves,   \* "back": the branch a chip shows may be left and come back to
                       \* before a git probe has seen another one
          MaxMoves,    \* bound on directory changes and finished commands
          MaxCheckouts \* bound on branches checked out

VARIABLES tree,    \* the branch checked out in the repository
          chips,   \* the pane: its directory, git_context, pr_context, last_git_branch,
                   \* whether it is open, and the git context of the last block started
          probe,   \* per tool: last_requested, the request queue, the worker and results
          budget   \* moves and checkouts done
probeVars == <<tree, chips, probe, budget>>

Tools == {"git", "gh"}
None  == "none"
ASSUME ProbesAssumption == None \notin Dirs \cup Branches

\* What the tool says of a directory now: the branch, or the branch with the pull
\* request; nothing outside a repository or without one.
Says(tool, dir) ==
    IF dir \notin Repo \/ (tool = "gh" /\ tree \notin WithPr) THEN None ELSE tree

ProbesInit ==
    /\ tree \in Branches
    /\ \E dir \in Dirs :
         chips = [dir |-> dir, git |-> None, pr |-> None, branch |-> None, open |-> TRUE]
    /\ probe = [t \in Tools |-> [asked |-> None, queue |-> <<>>, results |-> <<>>,
                                 running |-> None, again |-> None, alive |-> TRUE]]
    /\ budget = [moves |-> 0, checkouts |-> 0]

RequestedOnce(p, dir, force) ==
    IF p.asked # dir THEN [p EXCEPT !.asked = dir, !.queue = Append(@, dir)] ELSE p

\* GitProbe::request and GhProbe::request: a directory already asked for is not asked
\* for again unless forced.
Requested(p, dir, force) ==
    IF force \/ p.asked # dir THEN [p EXCEPT !.asked = dir, !.queue = Append(@, dir)] ELSE p


\* poll: the newest result wins and the others are dropped.
Polled(p, shown) == IF p.results = <<>> THEN shown ELSE Last(p.results).says
Arrived(p) == [p EXCEPT !.results = <<>>]

\* One drain that leaves the pane in this directory.  The git probe is asked, again if
\* a command has finished, and polled; the pull request is asked for again when the
\* branch is not the one of the last frame.
PaneDrains(dir, finished) ==
    /\ chips.open
    /\ budget.moves < MaxMoves \/ (dir = chips.dir /\ ~finished)
    /\ LET git     == Requested(probe["git"], dir, finished)
           context == Polled(git, chips.git)
           changed == context # chips.branch
           gh      == Requested(probe["gh"], dir, changed)
       IN  /\ probe' = [t \in Tools |-> Arrived(IF t = "git" THEN git ELSE gh)]
           /\ chips' = [chips EXCEPT !.dir = dir, !.git = context, !.branch = context,
                                     !.pr = Polled(gh, @)]
    /\ budget' = IF dir = chips.dir /\ ~finished THEN budget
                 ELSE [budget EXCEPT !.moves = @ + 1]
    /\ UNCHANGED tree

\* Another program, or the command that runs, checks out a branch.
Checkout ==
    /\ budget.checkouts < MaxCheckouts
    /\ tree' \in Branches \ {tree}
    /\ "back" \in ChipMoves \/ (chips.dir \in Repo => tree' # chips.git)
    /\ budget' = [budget EXCEPT !.checkouts = @ + 1]
    /\ UNCHANGED <<chips, probe>>

\* next_cwd and the coalescing loop: of the requests queued the newest is run.
Coalesced(queue) == Last(queue)

Take(tool) ==
    /\ probe[tool].alive /\ probe[tool].running = None /\ probe[tool].queue # <<>>
    /\ probe' = [probe EXCEPT ![tool].running = Coalesced(probe[tool].queue),
                              ![tool].queue = <<>>, ![tool].again = None]
    /\ UNCHANGED <<tree, chips, budget>>

\* No request came within the polling interval, seconds in which every result has
\* been polled by a frame: the same directory again.
TakeAgain(tool) ==
    /\ probe[tool].alive /\ probe[tool].running = None /\ probe[tool].queue = <<>>
    /\ chips.open /\ probe[tool].again # None /\ probe[tool].results = <<>>
    /\ probe' = [probe EXCEPT ![tool].running = probe[tool].again, ![tool].again = None]
    /\ UNCHANGED <<tree, chips, budget>>

\* The tool has run.  The worker keeps polling a repository, or an open pull request,
\* and ends when nobody is left to tell.
Answer(tool) ==
    LET p    == probe[tool]
        says == Says(tool, p.running)
    IN  /\ p.alive /\ p.running # None
        /\ probe' = [probe EXCEPT
              ![tool] = [p EXCEPT !.running = None,
                                  !.again = IF says # None THEN p.running ELSE None,
                                  !.results = IF chips.open
                                     THEN Append(@, [dir |-> p.running, says |-> says])
                                     ELSE @,
                                  !.alive = chips.open]]
        /\ UNCHANGED <<tree, chips, budget>>

\* The pane is dropped: its end of both channels goes, and a worker that waits for a
\* request ends at once.
Close ==
    /\ chips.open
    /\ chips' = [chips EXCEPT !.open = FALSE]
    /\ probe' = [t \in Tools |-> [probe[t] EXCEPT !.results = <<>>,
                    !.alive = @ /\ (probe[t].running # None \/ probe[t].queue # <<>>)]]
    /\ UNCHANGED <<tree, budget>>

ProbesNext ==
    \/ \E dir \in Dirs, finished \in BOOLEAN : PaneDrains(dir, finished)
    \/ Checkout
    \/ \E tool \in Tools : Take(tool) \/ TakeAgain(tool) \/ Answer(tool)
    \/ Close
ProbesSpec == ProbesInit /\ [][ProbesNext]_probeVars
-----------------------------------------------------------------------------
Quiet(tool) == /\ probe[tool].queue = <<>> /\ probe[tool].running = None
               /\ probe[tool].results = <<>>

ProbesTypeOK ==
    /\ tree \in Branches
    /\ chips \in [dir : Dirs, git : Branches \cup {None}, pr : Branches \cup {None},
                  branch : Branches \cup {None}, open : BOOLEAN]
    /\ probe \in [Tools -> [asked : Dirs \cup {None}, queue : Seq(Dirs), alive : BOOLEAN,
                            running : Dirs \cup {None}, again : Dirs \cup {None},
                            results : Seq([dir : Dirs, says : Branches \cup {None}])]]

\* Coalescing, suppressed duplicates and the poll of the same directory never lose
\* the newest question: the answer that comes last is about the directory the pane is
\* in (git_probe.rs:17-20).
LastAskedWins ==
    \A tool \in Tools :
        LET p == probe[tool]
            last == IF p.queue # <<>> THEN Last(p.queue)
                    ELSE IF p.running # None THEN p.running
                    ELSE IF p.results # <<>> THEN Last(p.results).dir ELSE p.asked
        IN  chips.open /\ p.asked # None => last = chips.dir

\* Once the git chip shows the branch that is checked out and no pull request is
\* being asked for, the chip shows the pull request of that branch, or none where
\* there is none (pane.rs:869-873): the probe of a branch that was left meanwhile
\* does not stay.
PullRequestOfTheBranch ==
    chips.open /\ Quiet("gh") /\ Quiet("git") /\ probe["gh"].asked # None
    /\ chips.git = Says("git", chips.dir) => chips.pr = Says("gh", chips.dir)

\* Once the probes rest, the chips are of the directory asked for last, and the
\* pull request is of the branch shown (git_probe.rs, gh_probe.rs, pane.rs).
ChipsAreCurrent == LastAskedWins /\ PullRequestOfTheBranch
=============================================================================
