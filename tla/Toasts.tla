------------------------------- MODULE Toasts -------------------------------
(***************************************************************************)
(* The store's toast notifications: addToast appends a toast whose id is    *)
(* Date.now() and starts a 2.8 s timer that removes every toast with that   *)
(* id.  Handlers all over the frontend call it; CaptureDeck composes it     *)
(* with theirs.                                                             *)
(*                                                                         *)
(* Only the equality of ids matters.  Two toasts share one when they are    *)
(* added within a millisecond, or when the wall clock was set back.  Timers *)
(* run on a clock of their own, and those of equal delay fire in the order  *)
(* in which they were started; ids and places in the list are counted from  *)
(* the next timer to fire, so that both move down by one when it does.      *)
(*                                                                         *)
(* ToastContainer renders the list with the ids as React keys.  React       *)
(* expects keys to be distinct; what it does with the nodes of equal keys   *)
(* is modelled by Strands.                                                  *)
(***************************************************************************)
EXTENDS Integers, Sequences, Functions

CONSTANTS
    MaxToasts,      \* bound: toast timers that are pending
    MaxRepeats      \* bound: toasts that are given the id of a pending timer

ASSUME ToastBound == MaxToasts \in Nat /\ MaxRepeats \in Nat

VARIABLES
    toasts,         \* the store's list, each toast with its place in it
    toastTimers,    \* the ids that the pending timers will remove, in order
    stranded,       \* the screen shows a toast that the list no longer holds
    repeats         \* history: toasts that were given the id of a pending timer

toastVars == <<toasts, toastTimers, stranded, repeats>>

ToastInit ==
    /\ toasts = {} /\ toastTimers = <<>>
    /\ stranded = FALSE /\ repeats = 0

Toast(place, id) == [place |-> place, id |-> id]

(* Date.now(): the id of a pending timer or a new one *)
DateNow(timers) == Range(timers) \cup {Len(timers) + 1}

Repeated(timers, id) == IF id \in Range(timers) THEN 1 ELSE 0

(* mutant: a new toast restarts the timer of the one before it *)
StartTimerShared(timers, id) == <<id>>

(* setTimeout(..., 2800) *)
StartTimer(timers, id) == Append(timers, id)

(* addToast.  A node is appended: React leaves the others where they are.   *)
AddToast ==
    /\ Len(toastTimers) < MaxToasts
    /\ \E id \in DateNow(toastTimers) :
          /\ toasts' = toasts \cup {Toast(Len(toastTimers) + 1, id)}
          /\ toastTimers' = StartTimer(toastTimers, id)
          /\ repeats' = repeats + Repeated(toastTimers, id)
    /\ repeats' <= MaxRepeats
    /\ UNCHANGED stranded

(* two calls in one handler *)
AddTwoToasts ==
    /\ Len(toastTimers) + 1 < MaxToasts
    /\ \E id \in DateNow(toastTimers) :
          LET timers == StartTimer(toastTimers, id)
          IN  \E next \in DateNow(timers) :
                 /\ toasts' = toasts \cup {Toast(Len(toastTimers) + 1, id),
                                           Toast(Len(toastTimers) + 2, next)}
                 /\ toastTimers' = StartTimer(timers, next)
                 /\ repeats' = repeats + Repeated(toastTimers, id) + Repeated(timers, next)
    /\ repeats' <= MaxRepeats
    /\ UNCHANGED stranded

(* the timer's filter: every toast with the id *)
WithoutToasts(id) ==
    {Toast(t.place - 1, t.id - 1) : t \in {u \in toasts : u.id # id}}

(* React 18 matches the old and the new list from the front up to the first *)
(* toast that was removed.  If others follow, it looks the rest up by key;  *)
(* of the old nodes with one key it knows the last, and the ones before it  *)
(* are neither reused nor removed.  If none follow, it removes the rest.    *)
Strands(id) ==
    \E first, after, twin, last \in toasts :
        /\ first.id = id /\ after.id # id /\ first.place < after.place
        /\ twin.id = last.id /\ first.place <= twin.place /\ twin.place < last.place

ToastTimer ==
    /\ toastTimers # <<>>
    /\ toasts' = WithoutToasts(toastTimers[1])
    /\ toastTimers' = [n \in 1 .. Len(toastTimers) - 1 |-> toastTimers[n + 1] - 1]
    /\ stranded' = (stranded \/ Strands(toastTimers[1]))
    /\ UNCHANGED repeats

=============================================================================
