----------------------------- MODULE LineEditor -----------------------------
(***************************************************************************)
(* What the line editor of the consoles promises: the commands of the last *)
(* HIST_MAX entered lines can be called back, the newest first.            *)
(***************************************************************************)
EXTENDS Naturals, Sequences

CONSTANTS LINE_MAX,   \* characters in a line
          HIST_MAX,   \* lines that can be called back
          Printable

VARIABLES line, history, depth,   \* history[1] is the newest line
          ran                     \* the line that was run last

vars == <<line, history, depth, ran>>

Shorter(m, n) == IF m < n THEN m ELSE n

Init == line = <<>> /\ history = <<>> /\ depth = 0 /\ ran = <<>>

Insert ==
    /\ Len(line) < LINE_MAX
    /\ \E c \in Printable : line' = Append(line, c)
    /\ UNCHANGED <<history, depth, ran>>

Erase ==
    /\ line # <<>>
    /\ line' = SubSeq(line, 1, Len(line) - 1)
    /\ UNCHANGED <<history, depth, ran>>

Cancel == line' = <<>> /\ UNCHANGED <<history, depth, ran>>

Run ==
    /\ line # <<>>
    /\ ran' = line /\ line' = <<>> /\ depth' = 0
    /\ history' = [i \in 1 .. Shorter(Len(history) + 1, HIST_MAX) |->
                      IF i = 1 THEN line ELSE history[i - 1]]

Older ==
    /\ depth < Len(history)
    /\ depth' = depth + 1 /\ line' = history[depth + 1]
    /\ UNCHANGED <<history, ran>>

Newer ==
    /\ depth > 0
    /\ depth' = depth - 1
    /\ line' = IF depth = 1 THEN <<>> ELSE history[depth - 1]
    /\ UNCHANGED <<history, ran>>

Next == Insert \/ Erase \/ Cancel \/ Run \/ Older \/ Newer

Spec == Init /\ [][Next]_vars

=============================================================================
