----------------------------- MODULE StreamFilter -----------------------------
(***************************************************************************)
(* What a pane does to the bytes of its PTY before anything sees them:     *)
(* the echo suppressor (echo_suppress.rs) drops the tty's echo of what     *)
(* Termica itself wrote, and of what survives the sniffer (osc.rs)         *)
(* collects the shell's lifecycle markers and working directory.  A byte   *)
(* is a symbol; each byte carries the ghost tag "echo" or "out" that says  *)
(* who put it on the wire.  An escape that opens or closes a DCS is one    *)
(* symbol, and a JSON message body is one symbol.                          *)
(***************************************************************************)
EXTENDS Integers, FiniteSets, SequencesExt, Sublist

CONSTANTS Lines,     \* the lines Termica writes, sequences of symbols
          Outputs,   \* what programs and the shell write, sequences of symbols
          MaxWrites, \* bound on lines written
          MaxOutputs \* bound on outputs written

VARIABLES expected, \* EchoSuppressor::expected, symbols still to come
          sniffer,  \* OscSniffer: in_dcs, dcs_buf, the events queued, the cwd
          wire,     \* the tty's output not read yet, tagged bytes
          ghost     \* what was primed last, what has arrived and survived since,
                    \* every byte dropped, the markers sent, and the budget
filterVars == <<expected, sniffer, wire, ghost>>

Tagged(s, who) == [i \in DOMAIN s |-> [byte |-> s[i], from |-> who]]
Bytes(s) == [i \in DOMAIN s |-> s[i].byte]
-----------------------------------------------------------------------------
(* The echo suppressor. *)

\* What the tty echoes for a line: every \r and \n of it comes back as \r\n.
TtyEcho(line) == FlattenSeq([i \in DOMAIN line |->
                    IF line[i] \in {"cr", "lf"} THEN <<"cr", "lf">> ELSE <<line[i]>>])

\* What EchoSuppressor::expect makes of the line it is primed with: the same.
Expect(line) == TtyEcho(line)

\* Lines and outputs are sequences of symbols, and so are their echoes.
ASSUME StreamAssumption ==
    /\ \A line \in Lines : TtyEcho(line) \in Seq(STRING) /\ Expect(line) \in Seq(STRING)
    /\ \A out \in Outputs : out \in Seq(STRING)

\* How many bytes of b the suppressor consumes when it expects e: those up to
\* which the two agree.
Matched(e, b) ==
    Cardinality({k \in 1 .. Len(e) : k <= Len(b) /\ \A i \in 1 .. k : e[i] = b[i]})

\* Of the expectation e, what is left when b has come: nothing once a byte of b
\* does not match.
LeftArmed(e, b) == SubSeq(e, Matched(e, b) + 1, Len(e))
Left(e, b) == IF Matched(e, b) = Len(b) THEN SubSeq(e, Len(b) + 1, Len(e)) ELSE <<>>

\* The bytes that survive.
After(b, k) == SubSeq(b, k + 1, Len(b))
-----------------------------------------------------------------------------
(* The marker and OSC 7 sniffer. *)

Precmds == {"precmd1", "precmd2"}
Messages == Precmds \cup {"finished"}
Osc7s   == {"osc1", "osc2"}
CwdOf(byte) == CASE byte \in {"precmd1", "osc1"} -> 1 [] byte \in {"precmd2", "osc2"} -> 2

Start == [in |-> FALSE, buf |-> <<>>, events |-> <<>>, cwd |-> 0]

\* A DCS ends: its body is an event if it is one well-formed message of ours, and
\* a precmd brings the working directory with it.
Unhook(s) ==
    IF ~s.in THEN s
    ELSE LET body == s.buf IN
         IF Len(body) = 1 /\ body[1] \in Messages
         THEN [s EXCEPT !.in = FALSE, !.buf = <<>>, !.events = Append(@, body[1]),
                        !.cwd = IF body[1] \in Precmds THEN CwdOf(body[1]) ELSE @]
         ELSE [s EXCEPT !.in = FALSE, !.buf = <<>>]

\* A DCS begins.
Hook(s) == [in |-> TRUE, buf |-> <<>>, events |-> Unhook(s).events, cwd |-> Unhook(s).cwd]

\* Any escape ends a DCS in progress; the one that opens the next clears the buffer.
FeedByteBleeding(s, byte) ==
    CASE byte = "hook"   -> [s EXCEPT !.in = TRUE]
      [] byte = "unhook" -> Unhook(s)
      [] byte \in Osc7s  -> [Unhook(s) EXCEPT !.cwd = CwdOf(byte)]
      [] OTHER           -> IF s.in THEN [s EXCEPT !.buf = Append(@, byte)] ELSE s
FeedByte(s, byte) ==
    CASE byte = "hook"   -> Hook(s)
      [] byte = "unhook" -> Unhook(s)
      [] byte \in Osc7s  -> [Unhook(s) EXCEPT !.cwd = CwdOf(byte)]
      [] OTHER           -> IF s.in THEN [s EXCEPT !.buf = Append(@, byte)] ELSE s

\* OscSniffer::feed of several bytes.
FeedBytes(s, bytes) ==
    LET fed[n \in 0 .. Len(bytes)] ==
          IF n = 0 THEN s ELSE FeedByte(fed[n - 1], bytes[n])
    IN  fed[Len(bytes)]
\* Text as it is typed: no escape and no message.
Plain(byte) == byte \notin {"hook", "unhook"} \cup Osc7s \cup Messages

\* What is assumed of the stream: what Termica writes has no escapes and no
\* messages, and a message is written in one piece with the escapes around it.
StreamIsPlain ==
    /\ \A line \in Lines : \A i \in DOMAIN TtyEcho(line) : Plain(TtyEcho(line)[i])
    /\ \A out \in Outputs : \A i \in DOMAIN out :
          out[i] \in Messages => /\ i > 1 /\ out[i - 1] = "hook"
                                 /\ i < Len(out) /\ out[i + 1] = "unhook"
-----------------------------------------------------------------------------
FilterInit ==
    /\ expected = <<>> /\ sniffer = Start /\ wire = <<>>
    /\ ghost = [echo |-> <<>>, since |-> <<>>, shown |-> <<>>, dropped |-> {},
                sent |-> <<>>, alone |-> TRUE, writes |-> 0, outputs |-> 0]

\* A submit, a live completion request or an aborted continuation: the suppressor
\* is primed, replacing what it still expected, and the line is written.  The tty
\* echoes it at once, or does not when the program reading it has echo off.
Write(line) ==
    /\ ghost.writes < MaxWrites
    /\ expected' = Expect(line)
    /\ \E echo \in BOOLEAN :
         wire' = wire \o Tagged(IF echo THEN TtyEcho(line) ELSE <<>>, "echo")
    /\ ghost' = [ghost EXCEPT !.echo = Expect(line), !.since = <<>>, !.shown = <<>>,
                              !.writes = @ + 1,
                              !.alone = @ /\ expected = <<>> /\ wire = <<>>]
    /\ UNCHANGED sniffer

\* The shell, the command or a background job writes to the terminal.
Output(out) ==
    /\ ghost.outputs < MaxOutputs
    /\ wire' = wire \o Tagged(out, "out")
    /\ ghost' = [ghost EXCEPT !.outputs = @ + 1, !.sent = @ \o out]
    /\ UNCHANGED <<expected, sniffer>>

\* TerminalState::feed of the next n bytes, as many as the reader has got.
Feed(n) ==
    /\ n <= Len(wire)
    /\ LET chunk == SubSeq(wire, 1, n)
           k     == Matched(expected, Bytes(chunk))
           rest  == After(chunk, k)
       IN  /\ expected' = Left(expected, Bytes(chunk))
           /\ sniffer' = FeedBytes(sniffer, Bytes(rest))
           /\ ghost' = [ghost EXCEPT !.since = @ \o chunk, !.shown = @ \o rest,
                                     !.dropped = @ \cup {chunk[i] : i \in 1 .. k}]
    /\ wire' = After(wire, n)

FilterNext ==
    \/ \E line \in Lines : Write(line)
    \/ \E out \in Outputs : Output(out)
    \/ \E n \in 1 .. Len(wire) : Feed(n)
FilterSpec == FilterInit /\ [][FilterNext]_filterVars
-----------------------------------------------------------------------------
\* Where the reader cuts the stream never matters: what is still expected and what
\* has survived are what one call of the filter, given all the bytes since the
\* suppressor was primed, would have left (terminal.rs:202-204).
ChunksDoNotMatter ==
    LET k == Matched(ghost.echo, Bytes(ghost.since))
    IN  /\ expected = Left(ghost.echo, Bytes(ghost.since))
        /\ ghost.shown = After(ghost.since, k)

\* The messages among bytes, and the bytes that say where the shell is.
Kept(bytes) == Keep(bytes, {i \in DOMAIN bytes : bytes[i] \in Messages})
Tells(byte) == byte \in Precmds \cup Osc7s
TellsLast(bytes, i) == Tells(bytes[i]) /\ \A j \in DOMAIN bytes : j > i => ~Tells(bytes[j])

\* No marker of the shell is lost, invented or reordered by echo suppression, by
\* the cut of the stream or by a foreign or unfinished sequence before it, and the
\* working directory is the one reported last.
EveryMarkerArrives ==
    wire = <<>> =>
        /\ sniffer.events = Kept(ghost.sent)
        /\ \A i \in DOMAIN ghost.sent :
              TellsLast(ghost.sent, i) => sniffer.cwd = CwdOf(ghost.sent[i])

\* The echo of a line never shows while every line is written to a terminal whose
\* output has been read and whose last echo has come whole.
EchoIsHidden ==
    ghost.alone => \A i \in DOMAIN ghost.shown : ghost.shown[i].from = "out"

\* What is shown is what the shell printed but for its markers and the echo of a
\* submit, and every marker arrives once (echo_suppress.rs, markers.rs).
EchoAndMarkersAreOut == EchoIsHidden /\ EveryMarkerArrives

\* The tty's echo of what Termica wrote never reaches the grid (pane.rs:1265-1267).
EchoNeverShown == \A i \in DOMAIN ghost.shown : ghost.shown[i].from = "out"

\* Suppression loses no output of a program (echo_suppress.rs:24-26).
NoOutputDropped == \A b \in ghost.dropped : b.from = "echo"
=============================================================================
