-------------------------- MODULE ClassifierContent --------------------------
(***************************************************************************)
(* What a classifier promises to whoever loads it: its content changes as a *)
(* whole, in one step; only a training changes what was learned, and never  *)
(* back to fewer examples; an export changes the name and the threshold of  *)
(* what is there; and nothing makes a content unreadable.                   *)
(***************************************************************************)
EXTENDS Naturals

CONSTANTS Classifier,
          Content,    \* what loading a classifier may give
          None

VARIABLES content,    \* what loading each classifier gives
          origin,     \* the version of the artifact each was imported as
          examples    \* how often the training examples of each changed

vars == <<content, origin, examples>>

Init ==
    /\ content = [c \in Classifier |-> None]
    /\ origin = [c \in Classifier |-> None]
    /\ examples = [c \in Classifier |-> 0]

TrainedHere(c) == content[c] # None /\ content[c].base = origin[c]

\* A version that some classifier goes by keeps its meaning.
Becomes(c, a) ==
    /\ \A q \in Classifier : content[q] # None /\ content[q].version = a.version => content[q] = a
    /\ content' = [content EXCEPT ![c] = a]

Import(c, a) ==
    /\ content[c] = None /\ origin[c] = None
    /\ Becomes(c, a)
    /\ origin' = [origin EXCEPT ![c] = a.version]
    /\ UNCHANGED examples

Train(c, a) ==
    /\ a.base = origin[c] /\ a.examples <= examples[c]
    /\ TrainedHere(c) => content[c].examples <= a.examples
    /\ Becomes(c, a)
    /\ UNCHANGED <<origin, examples>>

Export(c, a) ==
    /\ content[c] # None
    /\ a.base = content[c].base /\ a.examples = content[c].examples
    /\ Becomes(c, a)
    /\ UNCHANGED <<origin, examples>>

Learn(c) ==
    /\ examples' = [examples EXCEPT ![c] = @ + 1]
    /\ UNCHANGED <<content, origin>>

Next ==
    \E c \in Classifier :
        \/ Learn(c)
        \/ LET a == content'[c] IN a \in Content /\ (Import(c, a) \/ Train(c, a) \/ Export(c, a))

Spec == Init /\ [][Next]_vars
=============================================================================
