------------------------------ MODULE EventBus ------------------------------
(***************************************************************************)
(* events.Bus (events/events.go): Publish copies the list of subscriptions *)
(* under the lock and calls their callbacks without it, one after another; *)
(* Subscribe appends to the list, Cancel flags the subscription and then   *)
(* takes it off the list.  Any goroutine may do any of these at any time,  *)
(* a callback included: what a callback does is a step of the others, and  *)
(* a Publish from within a callback is one more publisher.                 *)
(*                                                                         *)
(* Each critical section under Bus.mu is one step; the cancelled flag is   *)
(* read and written outside it.  Events carry no data here: what matters   *)
(* is who is called in which Publish.                                      *)
(***************************************************************************)
EXTENDS Naturals, Sequences, SequencesExt

CONSTANTS
    Publishers,    \* goroutines, and callbacks, that publish
    Subscribers,   \* subscriptions, each made at most once
    MaxPublishes   \* bound on the events each publisher publishes

VARIABLES
    subs,       \* Bus.subs
    cancelled,  \* Subscription.cancelled
    removing,   \* subscriptions whose Cancel has won the swap, not yet the lock
    silenced,      \* those for which a Cancel has returned
    phase,      \* each publisher: "idle", "next", "about" to call, or "in" a callback
    snapshot,   \* its copy of subs
    index,      \* the position it has reached in the copy
    published,  \* events it has published
    joined,     \* history: the subscriptions in the order they were made
    active,     \* history: those not cancelled when its Publish took the copy
    heard,      \* history: whom it has called in its current or last Publish
    late        \* history: its calls to subscriptions whose Cancel had returned

registry == <<subs, cancelled, removing, silenced, joined>>
progress == <<phase, snapshot, index, published, active, heard, late>>
busVars == <<registry, progress>>

BusInit ==
    /\ subs = <<>> /\ joined = <<>>
    /\ cancelled = {} /\ removing = {} /\ silenced = {}
    /\ phase = [p \in Publishers |-> "idle"]
    /\ snapshot = [p \in Publishers |-> <<>>]
    /\ index = [p \in Publishers |-> 1]
    /\ published = [p \in Publishers |-> 0]
    /\ active = [p \in Publishers |-> {}]
    /\ heard = [p \in Publishers |-> <<>>]
    /\ late = [p \in Publishers |-> [s \in Subscribers |-> 0]]

-----------------------------------------------------------------------------
Subscribe(s) ==
    /\ s \notin ToSet(joined)
    /\ subs' = Append(subs, s)
    /\ joined' = Append(joined, s)
    /\ UNCHANGED <<cancelled, removing, silenced, progress>>

\* The first Cancel of a subscription raises the flag ...
CancelSwap(s) ==
    /\ s \in ToSet(joined) \ cancelled
    /\ cancelled' = cancelled \cup {s}
    /\ removing' = removing \cup {s}
    /\ UNCHANGED <<subs, silenced, joined, progress>>

\* ... and takes the lock to drop it, where the list has it first.
CancelRemove(s) ==
    /\ s \in removing
    /\ subs' = RemoveFirst(subs, s)
    /\ removing' = removing \ {s}
    /\ silenced' = silenced \cup {s}
    /\ UNCHANGED <<cancelled, joined, progress>>

\* Any other Cancel finds the flag raised and returns at once.
SwapFails(s) == s \in cancelled

CancelAgain(s) ==
    /\ SwapFails(s)
    /\ silenced' = silenced \cup {s}
    /\ UNCHANGED <<subs, cancelled, removing, joined, progress>>

-----------------------------------------------------------------------------
Publish(p) ==
    /\ phase[p] = "idle"
    /\ published[p] < MaxPublishes
    /\ published' = [published EXCEPT ![p] = @ + 1]
    /\ snapshot' = [snapshot EXCEPT ![p] = subs]
    /\ index' = [index EXCEPT ![p] = 1]
    /\ phase' = [phase EXCEPT ![p] = "next"]
    /\ active' = [active EXCEPT ![p] = ToSet(joined) \ cancelled]
    /\ heard' = [heard EXCEPT ![p] = <<>>]
    /\ UNCHANGED <<registry, late>>

\* What the loop ranges over.  The mutant ranges over the list itself.
MutLoop(p) == subs
Loop(p) == snapshot[p]

Current(p) == Loop(p)[index[p]]

\* deliver looks at the flag.  The mutant does not.
MutSkips(s) == FALSE
Skips(s) == s \in cancelled

DeliverCheck(p) ==
    /\ phase[p] = "next"
    /\ index[p] <= Len(Loop(p))
    /\ IF Skips(Current(p))
       THEN index' = [index EXCEPT ![p] = @ + 1] /\ UNCHANGED phase
       ELSE phase' = [phase EXCEPT ![p] = "about"] /\ UNCHANGED index
    /\ UNCHANGED <<registry, snapshot, published, active, heard, late>>

\* The callback of the subscription read in DeliverCheck begins.
DeliverCall(p) ==
    /\ phase[p] = "about"
    /\ index[p] <= Len(Loop(p))
    /\ phase' = [phase EXCEPT ![p] = "in"]
    /\ heard' = [heard EXCEPT ![p] = Append(@, Current(p))]
    /\ late' = [late EXCEPT ![p][Current(p)] = IF Current(p) \in silenced THEN @ + 1 ELSE @]
    /\ UNCHANGED <<registry, snapshot, index, published, active>>

\* It returns, or it panics and deliver recovers: the loop goes on.  The mutant
\* lets a panic end the Publish.
MutAfterCallback == {"next", "idle"}
AfterCallback == {"next"}

DeliverReturn(p) ==
    /\ phase[p] = "in"
    /\ \E q \in AfterCallback : phase' = [phase EXCEPT ![p] = q]
    /\ index' = [index EXCEPT ![p] = @ + 1]
    /\ UNCHANGED <<registry, snapshot, published, active, heard, late>>

PublishReturns(p) ==
    /\ phase[p] = "next"
    /\ index[p] > Len(Loop(p))
    /\ phase' = [phase EXCEPT ![p] = "idle"]
    /\ UNCHANGED <<registry, snapshot, index, published, active, heard, late>>

Deliver(p) == DeliverCheck(p) \/ DeliverCall(p) \/ DeliverReturn(p) \/ PublishReturns(p)

BusNext ==
    \/ \E s \in Subscribers :
          Subscribe(s) \/ CancelSwap(s) \/ CancelRemove(s) \/ CancelAgain(s)
    \/ \E p \in Publishers : Publish(p) \/ Deliver(p)

BusSpec == BusInit /\ [][BusNext]_busVars

-----------------------------------------------------------------------------
(* The type invariant: the bus holds subscriptions that were made, each once. *)
BusTypeOK ==
    /\ subs \in Seq(Subscribers) /\ IsInjective(subs)
    /\ cancelled \subseteq ToSet(joined)
    /\ removing \subseteq cancelled /\ silenced \subseteq cancelled
    /\ phase \in [Publishers -> {"idle", "next", "about", "in"}]
    /\ snapshot \in [Publishers -> Seq(Subscribers)]
    /\ index \in [Publishers -> Nat \ {0}]
    /\ published \in [Publishers -> 0 .. MaxPublishes]
    /\ joined \in Seq(Subscribers) /\ IsInjective(joined)
    /\ active \in [Publishers -> SUBSET Subscribers]
    /\ heard \in [Publishers -> Seq(Subscribers)]
    /\ late \in [Publishers -> [Subscribers -> Nat]]

\* list holds members of order, as they follow one another there.
InOrderOf(order, list) ==
    \A i, j \in DOMAIN list :
        i < j => \E k, l \in DOMAIN order :
                    k < l /\ order[k] = list[i] /\ order[l] = list[j]

\* Subscribers are called "synchronously, in registration order"
\* (events.go:4-5), each at most once per event, however many cancels compact
\* the list meanwhile; and "new subscribers will not receive the in-flight
\* event" (events.go:10-11).
CalledInOrder ==
    \A p \in Publishers :
        InOrderOf(joined, heard[p]) /\ ToSet(heard[p]) \subseteq active[p]

\* When a Publish has returned, everyone who was subscribed when it began and
\* has not been cancelled since has been called: "remaining subscribers still
\* run" (events.go:14-15).
NobodyMissed ==
    \A p \in Publishers :
        phase[p] = "idle" => active[p] \ cancelled \subseteq ToSet(heard[p])

\* Once Cancel has returned, a publisher calls the subscription at most once
\* more, and only if it was about to: the weaker form of "no further events
\* will be delivered" (events.go:64-65) that the unlocked flag gives.
AtMostOneLate ==
    \A p \in Publishers, s \in Subscribers : late[p][s] <= 1

=============================================================================
