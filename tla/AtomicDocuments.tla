--------------------------- MODULE AtomicDocuments ---------------------------
(***************************************************************************)
(* What writeDocuments promises: the configuration and secrets documents   *)
(* change together. While a write is undecided they show what was there    *)
(* before or what is being written, and nothing else; the answer says      *)
(* which, unless it says that the rollback failed. Nothing is promised any *)
(* more once the record that would take a write back has been lost.        *)
(***************************************************************************)
EXTENDS Naturals

CONSTANTS
    Processes,    \* the processes that share the documents
    Pairs,        \* contents of the two documents that belong together
    InitialPair

VARIABLES
    documents,    \* the contents of the two documents
    writing,      \* the write in progress, if there is one
    answer,       \* what the last write of each process answered
    lost          \* the record of an undecided write was lost

vars == <<documents, writing, answer, lost>>

Init ==
    /\ documents = InitialPair
    /\ writing = {}
    /\ answer = [p \in Processes |-> "none"]
    /\ lost = FALSE

Propose(p, pair) ==
    /\ writing = {}
    /\ writing' = {[by |-> p, old |-> documents, new |-> pair]}
    /\ answer' = [answer EXCEPT ![p] = "none"]
    /\ UNCHANGED documents

(* An undecided write takes effect, or is taken back. *)
Decide ==
    /\ \E w \in writing : documents' \in {w.old, w.new}
    /\ UNCHANGED <<writing, answer>>

Answer(p, a) ==
    /\ \E w \in writing :
        /\ w.by = p
        /\ documents' \in {w.old, w.new}
        /\ a = "ok" => documents' = w.new
        /\ a = "failed" => documents' = w.old
    /\ writing' = {}
    /\ answer' = [answer EXCEPT ![p] = a]

(* The process dies; its write, if it had one, stays as it was. *)
Abandon(p) ==
    /\ writing' = {w \in writing : w.by # p}
    /\ answer' = [answer EXCEPT ![p] = "none"]
    /\ UNCHANGED documents

Step ==
    \/ \E p \in Processes :
        \/ \E pair \in Pairs : Propose(p, pair)
        \/ \E a \in {"ok", "failed", "unknown"} : Answer(p, a)
        \/ Abandon(p)
    \/ Decide

Lose == lost' = TRUE

Next == (Step /\ UNCHANGED lost) \/ Lose

Spec == Init /\ [][Next]_vars
=============================================================================
