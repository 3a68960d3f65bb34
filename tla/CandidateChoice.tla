--------------------------- MODULE CandidateChoice ---------------------------
(***************************************************************************)
(* Which candidates of a scan configuration a stage gets when there is no  *)
(* room for all: prepare_budgeted_scan (workflow/engine.py) and            *)
(* choose_budgeted_candidates (workflow/candidates.py), the loop that goes *)
(* round the families and puts aside what a diversity cap no longer lets   *)
(* through.  Caps are shares of what the stage gets now, in percent, and   *)
(* the rounding of floating-point products is left out.                    *)
(***************************************************************************)
EXTENDS FiniteSets, Integers, SequencesExt

CONSTANTS
  Kinds,       \* what candidates there are: records [expression, field, price,
               \* family, route, skeleton, base]
  Pools,       \* the open candidates of a tick: sequences of them
  Rooms,       \* what stage and day have left
  Measures,    \* family_efficiency.json: family -> [tested, low, productive]
  NoName,      \* a family, skeleton or base that a candidate does not name
  BaseShare, FieldShare, FamilyShare, SkeletonShare, \* diversity_caps
  PriceShare, DownShare

ASSUME ChoiceConstants ==
  /\ Pools \subseteq Seq(Kinds)
  /\ \A k \in Kinds : k.price \in BOOLEAN /\ (k.family # NoName => k.family \in Int)
  /\ Rooms \subseteq Nat \ {0}
  /\ {BaseShare, FieldShare, FamilyShare, SkeletonShare, PriceShare, DownShare} \subseteq 0..100

VARIABLES
  pool,      \* the tick's open candidates
  room,      \* max_count
  measured,
  queues,    \* the families' candidates that wait, in ordered_families
  turn,      \* the family whose turn it is
  made_progress,
  chosen,    \* positions in pool
  choiceAt

choiceVars == <<pool, room, measured, queues, turn, made_progress, chosen, choiceAt>>

ChoiceInit ==
  /\ pool = <<>> /\ room = 0 /\ measured = <<>>
  /\ queues = <<>> /\ turn = 1 /\ made_progress = FALSE
  /\ chosen = <<>> /\ choiceAt = "idle"

-----------------------------------------------------------------------------
(* What a candidate is counted under                                       *)

Bucket(k) == IF k.family # NoName THEN k.family ELSE 0

\* The hint also looks at route_family and at the note.
FamilyHint(k) == IF k.family # NoName THEN k.family ELSE k.route
SkeletonHint(k) ==
  IF k.skeleton # NoName THEN <<0, k.skeleton>> ELSE <<FamilyHint(k), k.field>>

\* Eight rows, nine in ten of them low, none productive: what has been submitted
\* since does not count as productive.
Downweighted ==
  {f \in DOMAIN measured : /\ measured[f].tested >= 8 /\ measured[f].productive = 0
                           /\ 10 * measured[f].low >= 9 * measured[f].tested}

Most(m, n) == IF m < n THEN n ELSE m
Least(m, n) == IF m < n THEN m ELSE n
Cap(share) == Most(1, (room * share + 99) \div 100)
FloorCap(share) == (room * share) \div 100

\* How many are chosen that count under what k counts under.
Alike(k, Hint(_)) == Cardinality({c \in ToSet(chosen) : Hint(pool[c]) = Hint(k)})
Expression(k) == k.expression
Base(k) == k.base
FieldHint(k) == k.field
IsPrice(k) == k.price

Fits(k) ==
  /\ Alike(k, Expression) = 0
  /\ k.base = NoName \/ Alike(k, Base) < Cap(BaseShare)
  /\ Alike(k, FieldHint) < Cap(FieldShare)
  /\ Alike(k, FamilyHint) < Cap(FamilyShare)
  /\ Alike(k, SkeletonHint) < Cap(SkeletonShare)
  /\ FamilyHint(k) \in Downweighted => Alike(k, FamilyHint) < FloorCap(DownShare)
  /\ k.price => Alike(k, IsPrice) < FloorCap(PriceShare)

-----------------------------------------------------------------------------
(* The loop                                                                *)

\* The elements of S in the order of a strict total order, by how many come before
\* each.
InOrder(S, before) ==
  [i \in 1..Cardinality(S) |->
     CHOOSE x \in S : Cardinality({y \in S : <<y, x>> \in before}) = i - 1]

\* ordered_families: the larger first, then by name.
Members(p, f) == {c \in DOMAIN p : Bucket(p[c]) = f}
Families(p) == {Bucket(p[c]) : c \in DOMAIN p}
LargerFirst(p) ==
  {e \in Families(p) \X Families(p) :
     LET m == Cardinality(Members(p, e[1])) n == Cardinality(Members(p, e[2]))
     IN  m > n \/ (m = n /\ e[1] < e[2])}
OrderedFamilies(p) == InOrder(Families(p), LargerFirst(p))

\* The candidates of each family, as they come in the configuration.
AsListed(p) == {e \in (DOMAIN p) \X (DOMAIN p) : e[1] < e[2]}
Waiting(p) ==
  LET families == OrderedFamilies(p)
  IN  [i \in DOMAIN families |-> InOrder(Members(p, families[i]), AsListed(p))]

\* What fits is taken whole, and nothing is counted.
Prepares ==
  /\ choiceAt = "idle"
  /\ \E p \in Pools, n \in Rooms, m \in Measures :
       /\ pool' = p /\ room' = Least(n, Len(p)) /\ measured' = m
       /\ IF Len(p) <= n
            THEN choiceAt' = "done" /\ queues' = <<>> /\ chosen' = [c \in DOMAIN p |-> c]
            ELSE choiceAt' = "chooses" /\ queues' = Waiting(p) /\ chosen' = <<>>
  /\ UNCHANGED <<turn, made_progress>>

Chooses == choiceAt = "chooses" /\ UNCHANGED <<pool, room, measured>>

\* Faulty variant: the family keeps its turn.
SameTurn == turn

\* One of each family, then the next.
NextTurn == turn + 1

Takes ==
  /\ Chooses /\ turn \in DOMAIN queues /\ queues[turn] # <<>>
  /\ Fits(pool[Head(queues[turn])])
  /\ chosen' = Append(chosen, Head(queues[turn]))
  /\ queues' = [queues EXCEPT ![turn] = Tail(@)]
  /\ turn' = NextTurn /\ made_progress' = TRUE
  /\ choiceAt' = IF Len(chosen') >= room THEN "done" ELSE "chooses"

PutsAside ==
  /\ Chooses /\ turn \in DOMAIN queues /\ queues[turn] # <<>>
  /\ ~Fits(pool[Head(queues[turn])])
  /\ queues' = [queues EXCEPT ![turn] = Tail(@)]
  /\ UNCHANGED <<turn, made_progress, chosen, choiceAt>>

PassesOver ==
  /\ Chooses /\ turn \in DOMAIN queues /\ queues[turn] = <<>>
  /\ turn' = turn + 1
  /\ UNCHANGED <<queues, made_progress, chosen, choiceAt>>

RoundEnds ==
  /\ Chooses /\ turn > Len(queues)
  /\ IF made_progress /\ \E i \in DOMAIN queues : queues[i] # <<>>
       THEN turn' = 1 /\ made_progress' = FALSE /\ UNCHANGED choiceAt
       ELSE choiceAt' = "done" /\ UNCHANGED <<turn, made_progress>>
  /\ UNCHANGED <<queues, chosen>>

ChoiceNext == Prepares \/ Takes \/ PutsAside \/ PassesOver \/ RoundEnds
ChoiceSpec == ChoiceInit /\ [][ChoiceNext]_choiceVars

-----------------------------------------------------------------------------
(* Properties                                                              *)

ChoiceTypeOK ==
  /\ ToSet(chosen) \subseteq DOMAIN pool /\ Len(chosen) <= room
  /\ UNION {ToSet(queues[i]) : i \in DOMAIN queues} \subseteq DOMAIN pool
  /\ turn \in Nat \ {0} /\ made_progress \in BOOLEAN
  /\ choiceAt \in {"idle", "chooses", "done"}

KeepsCaps(k) ==
  /\ Alike(k, Expression) = 1
  /\ k.base # NoName => Alike(k, Base) <= Cap(BaseShare)
  /\ Alike(k, FieldHint) <= Cap(FieldShare)
  /\ Alike(k, FamilyHint) <= Cap(FamilyShare)
  /\ Alike(k, SkeletonHint) <= Cap(SkeletonShare)
  /\ FamilyHint(k) \in Downweighted => Alike(k, FamilyHint) <= FloorCap(DownShare)
  /\ k.price => Alike(k, IsPrice) <= FloorCap(PriceShare)

\* The choice keeps every cap once not all fit, puts no candidate aside that it
\* still had room for, and what it leaves out for want of room is of a family that
\* no other is more than one ahead of: going round once, with nothing looked at
\* twice, loses nothing.
ChoiceIsDiverse ==
  choiceAt = "done" =>
    /\ Len(pool) > room => \A c \in ToSet(chosen) : KeepsCaps(pool[c])
    /\ \A c \in DOMAIN pool \ ToSet(chosen) : Fits(pool[c]) =>
         /\ Len(chosen) = room
         /\ \A d \in ToSet(chosen) : Alike(pool[d], Bucket) <= Alike(pool[c], Bucket) + 1
=============================================================================
