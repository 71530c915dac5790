----------------------------- MODULE RouterView -----------------------------
(***************************************************************************)
(* What a list of accounts may show: the promise of the router cache       *)
(* (backend/internal/mikrotik/types.go, CachedClient) to the handlers.     *)
(*                                                                         *)
(* A call is answered with contents that the router had at most Bound ago, *)
(* or with an error.  Only a call that overlaps with another may get a     *)
(* torn list.                                                              *)
(***************************************************************************)
EXTENDS Naturals

CONSTANTS
  Calls,      \* goroutines that ask for the list
  Bound,      \* the oldest contents that a list may show
  NoAnswer,   \* the call has no list yet
  Failed,     \* an error was returned
  Torn        \* a slice that another goroutine was storing meanwhile

VARIABLES
  now,        \* the clock
  past,       \* every content the router has had, with the time when it had it
  pending,    \* the calls under way
  alone,      \* the calls that have not overlapped with another
  answer      \* call -> its list

vars == <<now, past, pending, alone, answer>>

Recent == {s \in past : s.at + Bound >= now}

Init ==
  /\ now \in Nat
  /\ past = {[ver |-> 0, at |-> now]}
  /\ pending = {}
  /\ alone = {}
  /\ answer = [g \in Calls |-> NoAnswer]

\* Time passes, or the contents of the router change.
RouterStep ==
  /\ now' \in {now, now + 1}
  /\ \E s \in past' : s.at = now' /\ past' = past \union {s}
  /\ UNCHANGED <<pending, alone, answer>>

Ask(g) ==
  /\ g \notin pending
  /\ pending' = pending \union {g}
  /\ alone' = IF pending = {} THEN alone \union {g} ELSE alone \ pending'
  /\ UNCHANGED <<now, past, answer>>

Answer(g) ==
  /\ g \in pending /\ answer[g] = NoAnswer
  /\ \E a \in Recent \union {Failed} \union
              (IF g \in alone THEN {} ELSE {Torn}) :
       answer' = [answer EXCEPT ![g] = a]
  /\ pending' \in {pending, pending \ {g}}
  /\ UNCHANGED <<now, past, alone>>

\* A call ends; it had asked for something else, or goes on after its list.
Leave(g) ==
  /\ g \in pending
  /\ pending' = pending \ {g}
  /\ UNCHANGED <<now, past, alone, answer>>

\* The handler is through with its list.
Forget(g) ==
  /\ g \notin pending
  /\ answer' = [answer EXCEPT ![g] = NoAnswer]
  /\ alone' = alone \ {g}
  /\ UNCHANGED <<now, past, pending>>

\* The process is restarted.
Restart == pending' = {} /\ UNCHANGED <<now, past, alone, answer>>

Next ==
  \/ RouterStep \/ Restart
  \/ \E g \in Calls : Ask(g) \/ Answer(g) \/ Leave(g) \/ Forget(g)

Spec == Init /\ [][Next]_vars
=============================================================================
