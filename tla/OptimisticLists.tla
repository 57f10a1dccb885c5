-------------------------- MODULE OptimisticLists ---------------------------
(***************************************************************************)
(* The app's list of the pickup points of one branch (Here), edited before *)
(* the server has answered (mixins/optimistic_operation.dart,              *)
(* widgets/pickup_points_manager.dart), over the handlers of               *)
(* BranchContent.                                                          *)
(*                                                                         *)
(* The app's code runs between two awaits without interruption: each such  *)
(* stretch is a step.  Requests of one app are handled in any order, their *)
(* answers arrive in any order or not at all; a request that gets no       *)
(* answer ends in an exception.                                            *)
(*                                                                         *)
(* An item on the screen is its id: the row's, or for an item the server   *)
(* does not know yet the temporary id the app made up (negative here).     *)
(*                                                                         *)
(* Deleting looks the item up with the mixin's abstract method _getId.  In *)
(* Dart a name with an underscore belongs to its library, and the mixin    *)
(* and the managers are two: the managers' _getId is another method, and   *)
(* the call throws.  bound tells whether the two are one, which is what    *)
(* the mixin is written for; both cases are explored.                      *)
(***************************************************************************)
EXTENDS BranchContent

CONSTANTS
    Blank,    \* the text of an empty form
    MaxCalls  \* bound: operations the user starts, and calls of others

ASSUME ListsAssumption ==
    /\ Blank \in Text
    /\ MaxCalls \in Nat

VARIABLES
    bound,   \* the mixin's _getId is the manager's
    items,   \* what the screen shows
    ops,     \* adds and deletes, in the order of their taps
    loads,   \* reloads, in the order they were started
    form,    \* the text in the form
    adding,  \* _isAddingPoint: the add button is disabled
    retry,   \* RETRY is on the screen
    calls,   \* (bound)
    trouble  \* what went wrong so far (history)

vars == <<rows, branches, now, bound, items, ops, loads, form, adding, retry, calls, trouble>>

\* The ways in which the code itself lets the list go wrong.  Each is an event
\* of an action below; the properties say that nothing else does, and promise
\* nothing once the events they name have happened.
Troubles == {"answer lost",         \* the server did it, the app was told it failed
             "reload lost",         \* a reload after a success brought nothing
             "empty answer",        \* a failed SELECT was answered with an empty list
             "overtaken",           \* a reload arrived after one started later
             "rollback disturbed",  \* the list changed between a delete and its rollback
             "double add",          \* RETRY was tapped while an add was under way
             "elsewhere"}           \* somebody else changed the list

NoIndex == 0

OpRecord == [type : {"add", "delete"},
             at : {"tapped", "sent", "ok", "failed", "done"},
             id : Int, text : Text, index : Nat, calm : BOOLEAN]

LoadRecord == [at : {"sent", "answered", "arrived", "lost"}, list : Seq(Int)]

TypeOK ==
    /\ ContentTypeOK
    /\ bound \in BOOLEAN
    /\ items \in Seq(Int)
    /\ ops \in Seq(OpRecord)
    /\ loads \in Seq(LoadRecord)
    /\ form \in Text
    /\ adding \in BOOLEAN /\ retry \in BOOLEAN
    /\ calls \in Nat
    /\ trouble \subseteq Troubles

-----------------------------------------------------------------------------

Op(type, at, id, text, index, calm) ==
    [type |-> type, at |-> at, id |-> id, text |-> text, index |-> index, calm |-> calm]

Ended(op) == Op(op.type, "done", op.id, Blank, NoIndex, FALSE)

At(o, place) == ops[o].at = place

Shown(id) == \E k \in DOMAIN items : items[k] = id

IsFirst(k, id) == items[k] = id /\ \A j \in 1..(k - 1) : items[j] # id

\* ops when o goes on to op and has touched the list or might have: a delete
\* under way can no longer rely on the index it remembers.
Disturbing(o, op) ==
    [p \in DOMAIN ops |->
        IF p = o THEN op
        ELSE Op(ops[p].type, ops[p].at, ops[p].id, ops[p].text, ops[p].index, FALSE)]

\* ops when o goes on to op and leaves the list alone.
Moving(o, op) == [ops EXCEPT ![o] = op]

StartLoad == loads' = Append(loads, [at |-> "sent", list |-> << >>])

Cause(what, happened) == trouble' = trouble \cup (IF happened THEN {what} ELSE {})

-----------------------------------------------------------------------------
(* Adding *)

Tap == calls < MaxCalls /\ calls' = calls + 1

\* The temporary id of the operation tapped next.
TempId == 0 - (Len(ops) + 1)

StartAdd ==
    /\ ops' = Append(ops, Op("add", "tapped", TempId, Blank, NoIndex, FALSE))
    /\ adding' = TRUE
    /\ UNCHANGED <<items, loads>>

\* Faulty form: the button is never disabled.
ButtonAlwaysOn == TRUE

ButtonOn == ~adding

\* _addPickupPoint by the button, the user having filled in the form.  (Typing
\* into it while an add is starting is left out.)
TapAdd(text) ==
    /\ Tap
    /\ ButtonOn
    /\ text # Blank
    /\ form' = text
    /\ StartAdd
    /\ UNCHANGED <<contentVars, bound, retry, trouble>>

\* _addPickupPoint by RETRY, which only looks at the form.
TapRetry ==
    /\ Tap
    /\ retry /\ form # Blank
    /\ StartAdd
    /\ retry' = FALSE
    /\ Cause("double add", adding)
    /\ UNCHANGED <<contentVars, bound, form>>

\* After the haptics: the item goes to the top of the list, the request is
\* made from what is in the form now.
ShowAdded(o) ==
    /\ ops[o].type = "add" /\ At(o, "tapped")
    /\ items' = <<ops[o].id>> \o items
    /\ ops' = Disturbing(o, Op("add", "sent", ops[o].id, form, NoIndex, FALSE))
    /\ UNCHANGED <<contentVars, bound, loads, form, adding, retry, calls, trouble>>

ServeAdd(o) ==
    /\ ops[o].type = "add" /\ At(o, "sent")
    /\ \E told \in {"ok", "failed"} :
          /\ CreatePickupPoint(Here, ops[o].text)
          /\ ops' = Moving(o, Op("add", told, ops[o].id, ops[o].text, NoIndex, FALSE))
          /\ Cause("answer lost", told = "failed")
    /\ UNCHANGED <<bound, items, loads, form, adding, retry, calls>>

\* onSuccess: the form is cleared, the list reloaded; the item stays on the
\* screen until the reload arrives.
AddSucceeds(o) ==
    /\ ops[o].type = "add" /\ At(o, "ok")
    /\ ops' = Disturbing(o, Ended(ops[o]))
    /\ StartLoad
    /\ adding' = FALSE
    /\ form' = Blank
    /\ retry' = FALSE
    /\ UNCHANGED <<contentVars, bound, items, calls, trouble>>

\* Faulty form: the item stays.
AddFailsKept(o) ==
    /\ ops[o].type = "add" /\ At(o, "failed")
    /\ ops' = Disturbing(o, Ended(ops[o]))
    /\ adding' = FALSE
    /\ retry' = TRUE
    /\ UNCHANGED <<contentVars, bound, items, loads, form, calls, trouble>>

\* _rollbackWithAnimation (items.remove(item)), then onError.
AddFails(o) ==
    /\ ops[o].type = "add" /\ At(o, "failed")
    /\ \/ \E k \in DOMAIN items : IsFirst(k, ops[o].id) /\ items' = RemoveAt(items, k)
       \/ ~Shown(ops[o].id) /\ UNCHANGED items
    /\ ops' = Disturbing(o, Ended(ops[o]))
    /\ adding' = FALSE
    /\ retry' = TRUE
    /\ UNCHANGED <<contentVars, bound, loads, form, calls, trouble>>

-----------------------------------------------------------------------------
(* Deleting *)

TapDelete(id) ==
    /\ Tap
    /\ Shown(id)
    /\ ops' = Append(ops, Op("delete", "tapped", id, Blank, NoIndex, FALSE))
    /\ UNCHANGED <<contentVars, bound, items, loads, form, adding, retry, trouble>>

\* After the haptics, deleteOptimistic: the first item with that id is taken
\* off and its index kept (-1 in the code, NoIndex here, when there is none).
\* On an empty list there is nothing to call _getId for.
StartDelete(o) ==
    /\ ops[o].type = "delete" /\ At(o, "tapped")
    /\ bound \/ items = << >>
    /\ \/ \E k \in DOMAIN items :
             /\ IsFirst(k, ops[o].id)
             /\ items' = RemoveAt(items, k)
             /\ ops' = Disturbing(o, Op("delete", "sent", ops[o].id, Blank, k, TRUE))
       \/ /\ ~Shown(ops[o].id)
          /\ ops' = Disturbing(o, Op("delete", "sent", ops[o].id, Blank, NoIndex, TRUE))
          /\ UNCHANGED items
    /\ UNCHANGED <<contentVars, bound, loads, form, adding, retry, calls, trouble>>

\* _getId throws: nothing is deleted and nobody is told.
DeleteThrows(o) ==
    /\ ops[o].type = "delete" /\ At(o, "tapped")
    /\ ~bound /\ items # << >>
    /\ ops' = Moving(o, Ended(ops[o]))
    /\ UNCHANGED <<contentVars, bound, items, loads, form, adding, retry, calls, trouble>>

ServeDelete(o) ==
    /\ ops[o].type = "delete" /\ At(o, "sent")
    /\ \E told \in {"ok", "failed"} :
          /\ DeletePickupPoint(Here, ops[o].id)
          /\ ops' = Moving(o, Op("delete", told, ops[o].id, Blank, ops[o].index, ops[o].calm))
          /\ Cause("answer lost", told = "failed")
    /\ UNCHANGED <<bound, items, loads, form, adding, retry, calls>>

DeleteSucceeds(o) ==
    /\ ops[o].type = "delete" /\ At(o, "ok")
    /\ ops' = Disturbing(o, Ended(ops[o]))
    /\ StartLoad
    /\ retry' = FALSE
    /\ UNCHANGED <<contentVars, bound, items, form, adding, calls, trouble>>

\* _rollbackWithInsertion (items.insert(index, item)), then onError.
DeleteFails(o) ==
    /\ ops[o].type = "delete" /\ At(o, "failed")
    /\ ops[o].index \in 1..(Len(items) + 1)
    /\ items' = InsertAt(items, ops[o].index, ops[o].id)
    /\ ops' = Disturbing(o, Ended(ops[o]))
    /\ retry' = FALSE
    /\ Cause("rollback disturbed", ~ops[o].calm)
    /\ UNCHANGED <<contentVars, bound, loads, form, adding, calls>>

\* insert throws RangeError when there is no such index: onError is not
\* called and nobody is told.
DeleteFailsUnseen(o) ==
    /\ ops[o].type = "delete" /\ At(o, "failed")
    /\ ops[o].index \notin 1..(Len(items) + 1)
    /\ ops' = Disturbing(o, Ended(ops[o]))
    /\ Cause("rollback disturbed", ops[o].index # NoIndex)
    /\ UNCHANGED <<contentVars, bound, items, loads, form, adding, retry, calls>>

\* A request the server never handled, or whose statement failed.
RequestFails(o) ==
    /\ At(o, "sent")
    /\ ops' = Moving(o, Op(ops[o].type, "failed", ops[o].id, ops[o].text,
                           ops[o].index, ops[o].calm))
    /\ UNCHANGED <<contentVars, bound, items, loads, form, adding, retry, calls, trouble>>

-----------------------------------------------------------------------------
(* Reloading *)

ServeLoad(l) ==
    /\ loads[l].at = "sent"
    /\ \E s \in [1..Cardinality(GetPickupPoints(Here)) -> GetPickupPoints(Here)] :
          /\ Lists(s, GetPickupPoints(Here))
          /\ loads' = [loads EXCEPT ![l] = [at |-> "answered", list |-> s]]
    /\ UNCHANGED <<contentVars, bound, items, ops, form, adding, retry, calls, trouble>>

\* get_pickup_points answers 200 and an empty list when its SELECT fails.
ServeLoadEmpty(l) ==
    /\ loads[l].at = "sent"
    /\ loads' = [loads EXCEPT ![l] = [at |-> "answered", list |-> << >>]]
    /\ trouble' = trouble \cup {"empty answer"}
    /\ UNCHANGED <<contentVars, bound, items, ops, form, adding, retry, calls>>

\* No answer, or not 200: the old list stays.
LoadLost(l) ==
    /\ loads[l].at = "sent"
    /\ loads' = [loads EXCEPT ![l] = [at |-> "lost", list |-> << >>]]
    /\ trouble' = trouble \cup {"reload lost"}
    /\ UNCHANGED <<contentVars, bound, items, ops, form, adding, retry, calls>>

\* Faulty form: the answer is added to what is there.
ReloadedBelow(l) == items \o loads[l].list

Reloaded(l) == loads[l].list

\* The list becomes the answer, whatever it was.
LoadArrives(l) ==
    /\ loads[l].at = "answered"
    /\ items' = Reloaded(l)
    /\ loads' = [loads EXCEPT ![l] = [at |-> "arrived", list |-> << >>]]
    /\ ops' = [p \in DOMAIN ops |->
                  Op(ops[p].type, ops[p].at, ops[p].id, ops[p].text, ops[p].index, FALSE)]
    /\ Cause("overtaken", \E m \in DOMAIN loads : m > l /\ loads[m].at = "arrived")
    /\ UNCHANGED <<contentVars, bound, form, adding, retry, calls>>

-----------------------------------------------------------------------------

\* Calls of others, and time.
Elsewhere ==
    /\ calls < MaxCalls /\ calls' = calls + 1
    /\ ContentNext
    /\ Cause("elsewhere", GetPickupPoints(Here)' # GetPickupPoints(Here))
    /\ UNCHANGED <<bound, items, ops, loads, form, adding, retry>>

\* The screen opens and loads the list (initState).
Init ==
    /\ ContentInit
    /\ bound \in BOOLEAN
    /\ items = << >>
    /\ ops = << >>
    /\ loads = <<[at |-> "sent", list |-> << >>]>>
    /\ form = Blank
    /\ adding = FALSE /\ retry = FALSE
    /\ calls = 0
    /\ trouble = {}

Next ==
    \/ \E text \in Text : TapAdd(text)
    \/ TapRetry
    \/ \E k \in DOMAIN items : TapDelete(items[k])
    \/ \E o \in DOMAIN ops :
          \/ ShowAdded(o) \/ ServeAdd(o) \/ AddSucceeds(o) \/ AddFails(o)
          \/ StartDelete(o) \/ DeleteThrows(o) \/ ServeDelete(o) \/ DeleteSucceeds(o)
          \/ DeleteFails(o) \/ DeleteFailsUnseen(o)
          \/ RequestFails(o)
    \/ \E l \in DOMAIN loads :
          ServeLoad(l) \/ ServeLoadEmpty(l) \/ LoadLost(l) \/ LoadArrives(l)
    \/ Elsewhere

Spec == Init /\ [][Next]_vars

-----------------------------------------------------------------------------
(* Properties *)

AtRest ==
    /\ \A o \in DOMAIN ops : ops[o].at = "done"
    /\ \A l \in DOMAIN loads : loads[l].at \in {"arrived", "lost"}

\* When nothing is under way any more the screen shows what the server has, in
\* the server's order, whatever adds and deletes overlapped and failed.  Any of
\* the troubles but a double add may break that: an answer or a reload lost,
\* reloads that overtake each other, a rollback by an index that no longer
\* fits, a change by somebody else.
SettledListIsServers == AtRest /\ trouble \subseteq {"double add"} =>
    Lists(items, GetPickupPoints(Here))

\* No item is on the screen twice, also while requests are under way, until a
\* rollback meets a list that has changed since its delete: it may insert an
\* item that a reload has brought back.  Nothing else shows one twice.
NothingShownTwice ==
    "rollback disturbed" \notin trouble =>
        \A j, k \in DOMAIN items : items[j] = items[k] => j = k

\* What is stored was in the form when it was checked, though the form is read
\* after an await, until RETRY is tapped while an add is under way: the one may
\* then clear the form the other is about to read.
NoBlankRows ==
    "double add" \notin trouble =>
        \A o \in DOMAIN ops : ops[o].type = "add" /\ At(o, "sent") => ops[o].text # Blank
=============================================================================
