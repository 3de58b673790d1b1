------------------------- MODULE RecommendationLife -------------------------
(***************************************************************************)
(* What the advisor promises about the recommendations that wait for an    *)
(* answer, whatever its rules say: a strategy has one at a time, an id is  *)
(* given once, the user's answer ends the one he was shown, and what an    *)
(* evaluation withdraws by itself is an override entry, never a sale.      *)
(* Advisory implements it; Dashboard uses it as its server.                *)
(***************************************************************************)
EXTENDS Naturals

CONSTANT Strategies

VARIABLES
  open,       \* the recommendations with status PENDING
  nextId      \* the id the next one gets

lifeVars == <<open, nextId>>

Kinds == {"ENTRY", "OVERRIDE", "SALE"}

Recommendations == [id : Nat, strategy : Strategies, kind : Kinds]

WaitingFor(s) == {r \in open : r.strategy = s}

\* Only these may be superseded without an answer.
Withdrawable(s) == \A r \in WaitingFor(s) : r.kind = "OVERRIDE"

LifeInit == open = {} /\ nextId = 1

\* An evaluation of s that gives the advice.
Advise(s, kind) ==
  /\ Withdrawable(s)
  /\ open' = (open \ WaitingFor(s)) \union
               {[id |-> nextId, strategy |-> s, kind |-> kind]}
  /\ nextId' = nextId + 1

\* An evaluation of s whose override entry no longer holds and that advises
\* nothing else.
Withdraw(s) ==
  /\ Withdrawable(s)
  /\ open' = open \ WaitingFor(s)
  /\ UNCHANGED nextId

\* The user reports the recommendation executed, or dismisses it.
Answer(r) ==
  /\ r \in open
  /\ open' = open \ {r}
  /\ UNCHANGED nextId

LifeNext ==
  \/ \E s \in Strategies, kind \in Kinds : Advise(s, kind)
  \/ \E s \in Strategies : Withdraw(s)
  \/ \E r \in open : Answer(r)

LifeSpec == LifeInit /\ [][LifeNext]_lifeVars

-----------------------------------------------------------------------------
LifeTypeOK == open \subseteq Recommendations /\ nextId \in Nat

\* No strategy has two recommendations waiting, and no two share an id.
OneOpenPerStrategy ==
  \A r, q \in open : r.strategy = q.strategy \/ r.id = q.id => r = q

IdsGivenOnce == \A r \in open : r.id < nextId
=============================================================================
