--------------------------- MODULE Configuration ---------------------------
(***************************************************************************)
(* What the master's configuration promises to its admins while they make  *)
(* one request at a time: a request changes one list, in one step, and is  *)
(* answered when the file holds all lists; a crash brings back what the    *)
(* file holds.  Once requests have come together (`mixed`) nothing is left *)
(* of this, not even that what a list shows are entries.                   *)
(***************************************************************************)
EXTENDS Naturals, Sequences, SequencesExt

CONSTANTS Lists, Entries, None

VARIABLES
  lists,    \* the lists as the master goes by them
  saved,    \* the lists a start of the master would load
  stage,    \* of the request under way: "asked", "made", "saving"; "idle" without one
  request,  \* [op, kind, entry], or None
  mixed     \* two requests have been under way at a time

configuration == << lists, saved, stage, request, mixed >>

Configs == [Lists -> Seq(Entries)]
AnyLists == [Lists -> Seq(Entries \cup {None})]
Empty == [k \in Lists |-> << >>]
InUse(k, key) == \E i \in DOMAIN lists[k] : lists[k][i].key = key

Init ==
  /\ saved \in Configs
  /\ \A i, j \in DOMAIN saved["routes"] :
       saved["routes"][i].key = saved["routes"][j].key => i = j
  /\ lists = saved
  /\ stage = "idle" /\ request = None
  /\ mixed = FALSE

Alone == ~ mixed /\ mixed' = FALSE

AskToAdd ==
  \E k \in Lists, e \in Entries :
    /\ stage = "idle" /\ stage' = "asked"
    /\ k = "routes" => ~ InUse(k, e.key)
    /\ request' = [op |-> "add", kind |-> k, entry |-> e]
    /\ UNCHANGED << lists, saved >>

AskToDelete ==
  \E k \in Lists : \E i \in DOMAIN lists[k] :
    /\ stage = "idle" /\ stage' = "asked"
    /\ request' = [op |-> "delete", kind |-> k, entry |-> lists[k][i]]
    /\ UNCHANGED << lists, saved >>

MakeAddition ==
  /\ stage = "asked" /\ request.op = "add"
  /\ lists' = [lists EXCEPT ![request.kind] = Append(@, request.entry)]
  /\ stage' = "made"
  /\ UNCHANGED << saved, request >>

MakeDeletion ==
  /\ stage = "asked" /\ request.op = "delete"
  /\ \E i \in DOMAIN lists[request.kind] :
       /\ lists[request.kind][i] = request.entry
       /\ lists' = [lists EXCEPT ![request.kind] = RemoveAt(@, i)]
  /\ stage' = "made"
  /\ UNCHANGED << saved, request >>

(* The file is emptied before it is written: a crash in between loses all. *)
Save ==
  /\ stage = "made" /\ stage' = "saving"
  /\ saved' = Empty
  /\ UNCHANGED << lists, request >>

Answer ==
  /\ stage = "saving" /\ stage' = "idle"
  /\ saved' = lists
  /\ request' = None
  /\ UNCHANGED lists

Crash ==
  /\ lists' = saved
  /\ stage' = "idle" /\ request' = None
  /\ UNCHANGED saved

Mixed ==
  /\ mixed' = TRUE
  /\ lists' \in AnyLists /\ saved' \in AnyLists
  /\ stage' = "idle" /\ request' = None

Next ==
  \/ Alone /\ (\/ AskToAdd \/ AskToDelete \/ MakeAddition \/ MakeDeletion
               \/ Save \/ Answer \/ Crash)
  \/ Mixed

Spec == Init /\ [][Next]_configuration
=============================================================================
