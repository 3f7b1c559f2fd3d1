----------------------------- MODULE TerminalView -----------------------------
(***************************************************************************)
(* What an attached terminal promises to show (docs/DAEMON.md, "Attach     *)
(* replay ordering"), with no leases, messages or connections: the screen  *)
(* is blank, or it was fed one contiguous run of the pane's output, which  *)
(* only grows at its end.  Whatever goes wrong, it starts again from       *)
(* blank; no byte is fed twice and none is left out in between.            *)
(***************************************************************************)
EXTENDS Naturals, Sequences

CONSTANTS MaxOutput, Nothing

VARIABLES output,   \* bytes the pane has put out; byte n is the number n
          screen    \* [from, bytes]: where the feed began, what was fed since

vars == << output, screen >>

Blank == [from |-> Nothing, bytes |-> << >>]

Run(first, next) == [k \in 1 .. next - first |-> first + k - 1]

Init == output = 0 /\ screen = Blank

Produce == /\ output' \in output + 1 .. MaxOutput
           /\ UNCHANGED screen

Clear == /\ screen' = Blank
         /\ UNCHANGED output

\* A replay: any run of the output so far, on a blank screen.
Replay(first, next) ==
    /\ screen = Blank
    /\ screen' = [from |-> first, bytes |-> Run(first, next)]
    /\ UNCHANGED output

\* Live output: the bytes that follow.
Extend(next) ==
    /\ screen # Blank
    /\ screen' = [screen EXCEPT !.bytes = Run(screen.from, next)]
    /\ screen.from + Len(screen.bytes) < next
    /\ UNCHANGED output

Next == \/ Produce \/ Clear
        \/ \E next \in 0 .. output : Extend(next) \/ \E first \in 0 .. next : Replay(first, next)

Spec == Init /\ [][Next]_vars
=============================================================================
