------------------------- MODULE AlphaListingProofs -------------------------
(***************************************************************************)
(* A returned listing is whole, for any lists, page sizes and refusals.    *)
(* The argument: a list never becomes again what it was, so if it is at    *)
(* the end what it was when the attempt began, each page came from the     *)
(* same list; the pages start one after another at multiples of the page   *)
(* size, none is moved back by the window, and the count says when they    *)
(* have reached the end.  So they are pieces of the list, and joined.      *)
(***************************************************************************)
EXTENDS AlphaListing, FoldLemmas

Listable == ToSet(Account) \cup ToSet(DataFields) \cup ToSet(DataSets) \cup NewAlphas
ListNames == {"alphas", "fields", "sets"}
Pages == [kind : {"rows", "refused", "garbled"}, rows : Seq(Listable)]

\* What a page at the offset holds, if the list is l.
PageOf(l, list, offset) ==
  LET from == Lower(offset, Window - Limit(list))
  IN  SubSeq(l, from + 1, Lower(from + Limit(list), Len(l)))

ListsAreSequences ==
  /\ account \in Seq(Listable) /\ asFound \in Seq(Listable)
  /\ call \in [list : ListNames, at : {"idle", "counts", "pages", "returned", "raised"},
               attempt : 0..ListingAttempts, count : Nat, offset : Nat]
  /\ call.count <= Len(Listed(call.list))
  /\ call.at \in {"counts", "pages"} => call.attempt >= 1
  /\ pages \in Seq(Pages)

\* A list never becomes again what it was.
ListsOnlyGrow == Listed(call.list) = asFound \/ Len(Listed(call.list)) > Len(asFound)

\* The pages of the attempt are those of the list as it was found, one after another.
PagesAreOfList ==
  /\ call.at = "counts" => pages = <<>> /\ call.offset = 0 /\ ~counted
  /\ call.at = "pages" =>
       /\ call.offset = Len(pages) * Limit(call.list)
       /\ \A i \in DOMAIN pages : (i - 1) * Limit(call.list) < call.count
       /\ counted /\ Listed(call.list) = asFound => call.count = Len(asFound)
       /\ Listed(call.list) = asFound =>
            \A i \in DOMAIN pages : pages[i].kind = "rows" =>
              pages[i].rows = PageOf(asFound, call.list, (i - 1) * Limit(call.list))

ListingInv ==
  /\ ListingTypeOK /\ ListsAreSequences /\ ListsOnlyGrow /\ PagesAreOfList /\ ListingIsWhole

LEMMA LimitsAre ==
  ASSUME NEW list \in ListNames
  PROVE  Limit(list) \in Nat \ {0} /\ Window \in Nat \ {0}
         /\ \E k \in Nat : Window = k * Limit(list)
BY ListingConstants DEF Limit, ListNames

LEMMA OwnLists == DataFields \in Seq(Listable) /\ DataSets \in Seq(Listable) /\ Account \in Seq(Listable)
<1>1. \A list \in {Account, DataFields, DataSets} : list \in Seq(ToSet(list)) /\ ToSet(list) \subseteq Listable
  BY ListingConstants DEF Listable
<1> QED
  BY <1>1, SeqMonotonic

LEMMA ListedIs ==
  /\ Listed("alphas") = account /\ Listed("fields") = DataFields /\ Listed("sets") = DataSets
BY DEF Listed

\* A page that starts before the end of a list that the window holds starts where it was asked for.
LEMMA PageStarts ==
  ASSUME NEW n \in Nat, NEW l \in Nat \ {0}, NEW w \in Nat, NEW k \in Nat, w = k * l, n * l < w
  PROVE  n * l <= w - l /\ n * l \in Nat
<1>1. w = k * l
  OBVIOUS
<1>2. n < k
  <2> SUFFICES ASSUME k <= n PROVE FALSE
    OBVIOUS
  <2>1. k * l <= n * l
    OBVIOUS
  <2> QED
    BY <1>1, <2>1
<1>3. (n + 1) * l <= k * l
  BY <1>2
<1>4. (n + 1) * l = n * l + l
  OBVIOUS
<1> QED
  BY <1>1, <1>3, <1>4

\* If the pages hold the list, one after another up to its end, they join to it.
LEMMA PagesMakeWhole ==
  ASSUME NEW l \in Seq(Listable), NEW list \in ListNames, Len(l) <= Window,
         NEW n \in Nat, NEW q \in Seq(Seq(Listable)), Len(q) = n, n * Limit(list) >= Len(l),
         \A i \in 1..n : (i - 1) * Limit(list) < Len(l) /\ q[i] = PageOf(l, list, (i - 1) * Limit(list))
  PROVE  FlattenSeq(q) = l
<1> DEFINE d == Limit(list)
           c == [i \in 0..n |-> Lower(i * d, Len(l))]
<1>1. d \in Nat \ {0} /\ Window \in Nat \ {0} /\ \E k \in Nat : Window = k * d
  BY LimitsAre
<1>2. Len(l) \in Nat
  BY LenProperties
<1> HIDE DEF d
<1>3. CASE n = 0
  <2>1. Len(l) = 0
    BY <1>1, <1>2, <1>3 DEF d
  <2>2. l = <<>> /\ q = <<>>
    BY <1>3, <2>1, EmptySeq
  <2> QED
    BY <1>3, <2>2 DEF FlattenSeq
<1>4. CASE n # 0
  <2>1. \A i \in 0..n : i * d \in Nat /\ c[i] \in 0..Len(l)
    BY <1>1, <1>2 DEF Lower
  <2>2. c \in [0..n -> 0..Len(l)]
    BY <2>1
  <2>3. c[0] = 0 /\ c[n] = Len(l)
    BY <1>1, <1>2, <2>1 DEF Lower, d
  <2>4. ASSUME NEW i \in 1..n PROVE c[i - 1] <= c[i] /\ q[i] = SubSeq(l, c[i - 1] + 1, c[i])
    <3> DEFINE o == (i - 1) * d
    <3>0. i - 1 \in Nat /\ i - 1 \in 0..n /\ i \in 0..n
      OBVIOUS
    <3>1. o \in Nat /\ o < Len(l) /\ i * d \in Nat
      BY <2>1, <3>0 DEF d
    <3>1a. i * d = o + d
      BY <1>1
    <3>2. o <= Window - d
      <4> HIDE DEF o
      <4>1. o < Window
        BY <1>1, <1>2, <3>1
      <4>2. (i - 1) * d < Window
        BY <4>1 DEF o
      <4> QED
        BY <1>1, <3>0, <4>2, PageStarts DEF o
    <3>3. c[i - 1] = o /\ c[i] = Lower(o + d, Len(l))
      BY <1>1, <1>2, <3>0, <3>1, <3>1a DEF Lower
    <3>4. q[i] = PageOf(l, list, o)
      BY DEF d
    <3> HIDE DEF o, c
    <3>5. Lower(o, Window - d) = o
      BY <1>1, <3>1, <3>2 DEF Lower
    <3>6. q[i] = SubSeq(l, o + 1, Lower(o + d, Len(l)))
      BY <3>4, <3>5 DEF PageOf, d
    <3>7. o <= Lower(o + d, Len(l))
      BY <1>1, <1>2, <3>1 DEF Lower
    <3> QED
      BY <3>3, <3>6, <3>7
  <2>5. CutsAt(q, l, c, n)
    BY <2>2, <2>3, <2>4 DEF CutsAt
  <2> HIDE DEF c
  <2> QED
    BY <1>4, <2>5, FlattenGivesWhole
<1> QED
  BY <1>3, <1>4

-----------------------------------------------------------------------------
CallParts == <<account, call, pages, listing, asFound, counted>>

LEMMA ListedIsSequence ==
  ASSUME ListingInv
  PROVE  /\ Listed(call.list) \in Seq(Listable) /\ Len(Listed(call.list)) \in Nat
         /\ Len(asFound) \in Nat /\ call.list \in ListNames
<1>1. call.list \in ListNames /\ account \in Seq(Listable) /\ asFound \in Seq(Listable)
  BY DEF ListingInv, ListsAreSequences
<1>2. Listed(call.list) \in Seq(Listable)
  BY <1>1, OwnLists, ListedIs DEF ListNames
<1> QED
  BY <1>1, <1>2, LenProperties

\* A step that the call does not take.
LEMMA CallStays ==
  ASSUME ListingInv, UNCHANGED CallParts,
         tokenLive' \in BOOLEAN, _authenticated' \in BOOLEAN, refusals' \in 0..MaxRefusals
  PROVE  ListingInv'
<1>1. UNCHANGED <<account, call, pages, listing, asFound, counted>>
  BY DEF CallParts
<1>2. Listed(call.list)' = Listed(call.list)
  BY <1>1 DEF Listed
<1>3. ListingTypeOK'
  BY <1>1, <1>2 DEF ListingInv, ListingTypeOK
<1>4. ListsAreSequences' /\ ListsOnlyGrow'
  BY <1>1, <1>2 DEF ListingInv, ListsAreSequences, ListsOnlyGrow
<1>5. PagesAreOfList' /\ ListingIsWhole'
  BY <1>1, <1>2 DEF ListingInv, PagesAreOfList, ListingIsWhole
<1> QED
  BY <1>3, <1>4, <1>5 DEF ListingInv

LEMMA ListingInitInvariant == ListingInit => ListingInv
<1> SUFFICES ASSUME ListingInit PROVE ListingInv
  OBVIOUS
<1> USE DEF ListingInit
<1>1. call = NoCall /\ account = Account /\ Listed(call.list) = Account
  BY ListedIs DEF NoCall
<1>2. call.at = "idle" /\ call.count = 0 /\ call.attempt = 0 /\ call.offset = 0 /\ call.list = "alphas"
  BY <1>1 DEF NoCall
<1>3. account \in Seq(Listable) /\ Len(account) \in Nat
  BY <1>1, OwnLists, LenProperties
<1>4. ListingTypeOK
  <2>1. ToSet(account) \subseteq ToSet(Account) \cup NewAlphas
    BY <1>1
  <2>2. \A i \in DOMAIN pages : pages[i].kind \in {"rows", "refused", "garbled"}
    <3>1. DOMAIN pages = {}
      BY EmptySeq
    <3> QED
      BY <3>1
  <2>3. call.count \in 0..Len(Listed(call.list)) /\ call.attempt \in 0..ListingAttempts
        /\ refusals \in 0..MaxRefusals
    BY <1>1, <1>2, <1>3, ListingConstants
  <2> QED
    BY <1>2, <2>1, <2>2, <2>3 DEF ListingTypeOK
<1>5. ListsAreSequences
  BY <1>1, <1>2, <1>3, ListingConstants, EmptySeq DEF ListsAreSequences, NoCall, ListNames
<1>6. ListsOnlyGrow /\ PagesAreOfList /\ ListingIsWhole
  BY <1>1, <1>2 DEF ListsOnlyGrow, PagesAreOfList, ListingIsWhole
<1> QED
  BY <1>4, <1>5, <1>6 DEF ListingInv

LEMMA AppearsInvariant == ASSUME ListingInv, AlphaAppears PROVE ListingInv'
<1>1. PICK a \in NewAlphas \ ToSet(account) : account' = <<a>> \o account
  BY DEF AlphaAppears
<1>2. UNCHANGED <<tokenLive, _authenticated, call, pages, listing, asFound, counted, refusals>>
  BY DEF AlphaAppears, session
<1>3. account \in Seq(Listable) /\ <<a>> \in Seq(Listable)
  BY <1>1 DEF ListingInv, ListsAreSequences, Listable
<1>4. account' \in Seq(Listable) /\ Len(account') = Len(account) + 1 /\ Len(account) \in Nat
  BY <1>1, <1>3, ConcatProperties, LenProperties
<1>5. ToSet(account') \subseteq ToSet(account) \cup {a}
  BY <1>1, <1>3 DEF ToSet
<1>6. \/ /\ call.list = "alphas" /\ Len(Listed(call.list)') = Len(Listed(call.list)) + 1
         /\ Len(Listed(call.list)) = Len(account)
      \/ Listed(call.list)' = Listed(call.list)
  <2>1. call.list \in ListNames
    BY ListedIsSequence
  <2>2. CASE call.list = "alphas"
    BY <1>2, <1>4, <2>2 DEF Listed
  <2>3. CASE call.list \in {"fields", "sets"}
    <3>1. call'.list = call.list
      BY <1>2
    <3> QED
      BY <2>3, <3>1 DEF Listed
  <2> QED
    BY <2>1, <2>2, <2>3 DEF ListNames
<1>7. Len(Listed(call.list)) \in Nat /\ Len(asFound) \in Nat
  BY ListedIsSequence
<1>8. Len(Listed(call.list)') \in Nat /\ Len(Listed(call.list)') >= Len(Listed(call.list))
  BY <1>6, <1>7
<1>9. \/ Listed(call.list)' = Listed(call.list)
      \/ Len(Listed(call.list)') > Len(asFound) /\ Listed(call.list)' # asFound
  BY <1>6, <1>7 DEF ListingInv, ListsOnlyGrow
<1>10. ListingTypeOK'
  <2>1. ToSet(account') \subseteq ToSet(Account) \cup NewAlphas
    BY <1>1, <1>5 DEF ListingInv, ListingTypeOK
  <2>2. call'.count \in 0..Len(Listed(call.list)')
    BY <1>2, <1>7, <1>8 DEF ListingInv, ListsAreSequences
  <2> QED
    BY <1>2, <2>1, <2>2 DEF ListingInv, ListingTypeOK
<1>11. ListsAreSequences'
  <2>1. call.count \in Nat
    BY DEF ListingInv, ListsAreSequences
  <2>2. call'.count <= Len(Listed(call.list)')
    BY <1>2, <1>7, <1>8, <2>1 DEF ListingInv, ListsAreSequences
  <2> QED
    BY <1>2, <1>4, <2>2 DEF ListingInv, ListsAreSequences
<1>12. ListsOnlyGrow' /\ PagesAreOfList' /\ ListingIsWhole'
  BY <1>2, <1>9 DEF ListingInv, ListsOnlyGrow, PagesAreOfList, ListingIsWhole
<1> QED
  BY <1>10, <1>11, <1>12 DEF ListingInv

LEMMA ListsInvariant == ASSUME ListingInv, NEW list \in ListNames, Lists(list) PROVE ListingInv'
<1>1. call' = [NoCall EXCEPT !.list = list, !.at = "counts", !.attempt = 1]
  BY DEF Lists
<1>2. call' = [list |-> list, at |-> "counts", attempt |-> 1, count |-> 0, offset |-> 0]
  BY <1>1 DEF NoCall
<1>3. /\ pages' = <<>> /\ listing' = <<>> /\ asFound' = Listed(list) /\ counted' = FALSE
      /\ tokenLive' = TRUE /\ _authenticated' = TRUE /\ UNCHANGED <<account, refusals>>
  BY DEF Lists
<1>4. Listed(call.list)' = Listed(list) /\ Listed(list) \in Seq(Listable)
  BY <1>2, <1>3, OwnLists, ListedIs DEF Listed, ListNames, ListingInv, ListsAreSequences
<1>5. Len(Listed(list)) \in Nat
  BY <1>4, LenProperties
<1>6. DOMAIN pages' = {} /\ pages' \in Seq(Pages) /\ listing' \in Seq(Listable)
  BY <1>3, EmptySeq
<1>7. ListingTypeOK'
  <2>1. \A i \in DOMAIN pages' : pages'[i].kind \in {"rows", "refused", "garbled"}
    BY <1>6
  <2>2. call'.count \in 0..Len(Listed(call.list)') /\ call'.attempt \in 0..ListingAttempts
        /\ call'.at = "counts"
    BY <1>2, <1>4, <1>5, ListingConstants
  <2>3. ToSet(account') \subseteq ToSet(Account) \cup NewAlphas /\ refusals' \in 0..MaxRefusals
        /\ tokenLive' \in BOOLEAN /\ _authenticated' \in BOOLEAN /\ counted' \in BOOLEAN
    BY <1>3 DEF ListingInv, ListingTypeOK
  <2> QED
    BY <2>1, <2>2, <2>3 DEF ListingTypeOK
<1>8. ListsAreSequences'
  BY <1>2, <1>3, <1>4, <1>5, <1>6, ListingConstants DEF ListingInv, ListsAreSequences
<1>9. ListsOnlyGrow' /\ PagesAreOfList' /\ ListingIsWhole'
  BY <1>2, <1>3, <1>4 DEF ListsOnlyGrow, PagesAreOfList, ListingIsWhole
<1> QED
  BY <1>7, <1>8, <1>9 DEF ListingInv

LEMMA RefusalCounts ==
  ASSUME refusals \in 0..MaxRefusals, Refusal
  PROVE  refusals' \in 0..MaxRefusals
BY ListingConstants DEF Refusal

LEMMA RefusedTypes ==
  ASSUME Refused, tokenLive \in BOOLEAN, _authenticated \in BOOLEAN, refusals \in 0..MaxRefusals
  PROVE  tokenLive' \in BOOLEAN /\ _authenticated' \in BOOLEAN /\ refusals' \in 0..MaxRefusals
<1>1. CASE ~tokenLive /\ _authenticated' = FALSE /\ UNCHANGED <<tokenLive, refusals>>
  <2>1. tokenLive' = tokenLive /\ refusals' = refusals
    BY <1>1
  <2> QED
    BY <1>1, <2>1
<1>2. CASE Refusal /\ UNCHANGED session
  <2>1. tokenLive' = tokenLive /\ _authenticated' = _authenticated
    BY <1>2 DEF session
  <2> QED
    BY <1>2, <2>1, RefusalCounts
<1> QED
  BY <1>1, <1>2 DEF Refused

LEMMA CountInvariant ==
  ASSUME ListingInv, CountIsAnswered \/ CountIsRefused
  PROVE  ListingInv'
<1>1. /\ call.at = "counts" /\ UNCHANGED <<account, pages, listing, asFound>>
      /\ \/ call' = [call EXCEPT !.at = "pages", !.count = Len(Listed(call.list))] /\ counted' = TRUE
         \/ call' = [call EXCEPT !.at = "pages", !.count = 0] /\ counted' = counted
  BY DEF CountIsAnswered, CountIsRefused
<1>2. tokenLive' \in BOOLEAN /\ _authenticated' \in BOOLEAN /\ refusals' \in 0..MaxRefusals
  <2>1. tokenLive \in BOOLEAN /\ _authenticated \in BOOLEAN /\ refusals \in 0..MaxRefusals
    BY DEF ListingInv, ListingTypeOK
  <2>2. CASE Answered /\ CountIsAnswered
    BY <2>1, <2>2 DEF Answered, session
  <2>3. CASE Refused /\ CountIsRefused
    BY <2>1, <2>3, RefusedTypes
  <2> QED
    BY <2>2, <2>3 DEF CountIsAnswered, CountIsRefused
<1>3. /\ Listed(call.list) \in Seq(Listable) /\ Len(Listed(call.list)) \in Nat
      /\ Len(asFound) \in Nat
  BY ListedIsSequence
<1>4. call \in [list : ListNames, at : {"idle", "counts", "pages", "returned", "raised"},
                attempt : 0..ListingAttempts, count : Nat, offset : Nat] /\ call.attempt >= 1
  BY <1>1 DEF ListingInv, ListsAreSequences
<1>5. /\ call' \in [list : ListNames, at : {"idle", "counts", "pages", "returned", "raised"},
                    attempt : 0..ListingAttempts, count : Nat, offset : Nat]
      /\ call'.at = "pages" /\ call'.list = call.list /\ call'.attempt = call.attempt
      /\ call'.offset = call.offset /\ call'.count \in 0..Len(Listed(call.list))
      /\ counted' \in BOOLEAN
      /\ counted' => call'.count = Len(Listed(call.list))
  <2>1. counted = FALSE
    BY <1>1 DEF ListingInv, PagesAreOfList, ListingTypeOK
  <2>2. ASSUME NEW n \in 0..Len(Listed(call.list)), call' = [call EXCEPT !.at = "pages", !.count = n]
        PROVE  /\ call' \in [list : ListNames, at : {"idle", "counts", "pages", "returned", "raised"},
                             attempt : 0..ListingAttempts, count : Nat, offset : Nat]
               /\ call'.at = "pages" /\ call'.list = call.list /\ call'.attempt = call.attempt
               /\ call'.offset = call.offset /\ call'.count = n
    <3>1. n \in Nat
      BY <1>3
    <3> QED
      BY <1>4, <2>2, <3>1
  <2>3. CASE call' = [call EXCEPT !.at = "pages", !.count = Len(Listed(call.list))] /\ counted' = TRUE
    <3>1. Len(Listed(call.list)) \in 0..Len(Listed(call.list))
      BY <1>3
    <3> QED
      BY <2>2, <2>3, <3>1
  <2>4. CASE call' = [call EXCEPT !.at = "pages", !.count = 0] /\ counted' = counted
    <3>1. 0 \in 0..Len(Listed(call.list))
      BY <1>3
    <3> QED
      BY <2>1, <2>2, <2>4, <3>1
  <2> QED
    BY <1>1, <2>3, <2>4
<1>6. pages = <<>> /\ call.offset = 0 /\ DOMAIN pages = {} /\ Len(pages) = 0
  BY <1>1, EmptySeq DEF ListingInv, PagesAreOfList
<1>7. Listed(call.list)' = Listed(call.list)
  BY <1>1, <1>5 DEF Listed
<1>8. Limit(call.list) \in Nat
  BY <1>4, LimitsAre
<1> HIDE <1>1
<1>9. UNCHANGED <<account, pages, listing, asFound>>
  BY <1>1
<1>10. ListingTypeOK'
  BY <1>2, <1>4, <1>5, <1>7, <1>9 DEF ListingInv, ListingTypeOK
<1>11. ListsAreSequences'
  BY <1>3, <1>4, <1>5, <1>7, <1>9 DEF ListingInv, ListsAreSequences
<1>12. ListsOnlyGrow' /\ PagesAreOfList' /\ ListingIsWhole'
  BY <1>5, <1>6, <1>7, <1>8, <1>9 DEF ListingInv, ListsOnlyGrow, PagesAreOfList, ListingIsWhole
<1> QED
  BY <1>10, <1>11, <1>12 DEF ListingInv

\* A page is added to those of the attempt.
LEMMA PageInvariant ==
  ASSUME ListingInv, MorePages, NEW page \in Pages,
         page.kind = "rows" => page.rows = PageAt(call.list, call.offset),
         pages' = Append(pages, page),
         call' = [call EXCEPT !.offset = @ + Limit(call.list)],
         UNCHANGED <<account, listing, asFound, counted>>,
         tokenLive' \in BOOLEAN, _authenticated' \in BOOLEAN, refusals' \in 0..MaxRefusals
  PROVE  ListingInv'
<1> DEFINE d == Limit(call.list)
           n == Len(pages)
<1>1. call.at = "pages" /\ call.offset < call.count
  BY DEF MorePages
<1>2. call \in [list : ListNames, at : {"idle", "counts", "pages", "returned", "raised"},
                attempt : 0..ListingAttempts, count : Nat, offset : Nat] /\ call.attempt >= 1
  BY <1>1 DEF ListingInv, ListsAreSequences
<1>3. d \in Nat
  BY <1>2, LimitsAre
<1>4. /\ call' \in [list : ListNames, at : {"idle", "counts", "pages", "returned", "raised"},
                    attempt : 0..ListingAttempts, count : Nat, offset : Nat]
      /\ call'.at = "pages" /\ call'.list = call.list /\ call'.attempt = call.attempt
      /\ call'.offset = call.offset + d /\ call'.count = call.count
  BY <1>1, <1>2, <1>3
<1>5. pages \in Seq(Pages) /\ n \in Nat /\ call.offset = n * d /\ DOMAIN pages = 1..n
  BY <1>1, LenProperties DEF ListingInv, ListsAreSequences, PagesAreOfList
<1>6. /\ pages' \in Seq(Pages) /\ Len(pages') = n + 1 /\ DOMAIN pages' = 1..(n + 1)
      /\ \A i \in 1..n : pages'[i] = pages[i]
      /\ pages'[n + 1] = page
  BY <1>5, AppendProperties, LenProperties
<1>7. /\ account' = account /\ listing' = listing /\ asFound' = asFound /\ counted' = counted
      /\ Listed(call.list)' = Listed(call.list)
  BY <1>4 DEF Listed
<1> HIDE DEF d, n
<1>8. (n + 1) * d = n * d + d /\ (n + 1) - 1 = n
  BY <1>3, <1>5
<1>9. ListingTypeOK'
  <2>1. \A i \in DOMAIN pages' : pages'[i].kind \in {"rows", "refused", "garbled"}
    <3>1. \A i \in 1..(n + 1) : pages'[i] \in Pages
      BY <1>6, LenProperties
    <3> QED
      BY <1>6, <3>1 DEF Pages
  <2> QED
    BY <1>4, <1>7, <2>1 DEF ListingInv, ListingTypeOK
<1>10. ListsAreSequences'
  BY <1>2, <1>4, <1>6, <1>7 DEF ListingInv, ListsAreSequences
<1>11. PagesAreOfList'
  <2>1. call'.offset = Len(pages') * Limit(call'.list)
    BY <1>4, <1>5, <1>6, <1>8 DEF d
  <2>2. ASSUME NEW i \in 1..(n + 1) PROVE (i - 1) * Limit(call'.list) < call'.count
    <3>1. CASE i \in 1..n
      BY <1>1, <1>4, <1>5, <3>1 DEF ListingInv, PagesAreOfList
    <3>2. CASE i = n + 1
      BY <1>1, <1>4, <1>5, <1>8, <3>2 DEF d
    <3> QED
      BY <1>5, <3>1, <3>2
  <2>3. counted' /\ Listed(call.list)' = asFound' => call'.count = Len(asFound')
    BY <1>1, <1>4, <1>7 DEF ListingInv, PagesAreOfList
  <2>4. ASSUME Listed(call.list)' = asFound', NEW i \in 1..(n + 1), pages'[i].kind = "rows"
        PROVE  pages'[i].rows = PageOf(asFound, call.list, (i - 1) * Limit(call.list))
    <3>1. CASE i \in 1..n
      BY <1>1, <1>5, <1>6, <1>7, <2>4, <3>1 DEF ListingInv, PagesAreOfList
    <3>2. CASE i = n + 1
      <4>1. page.rows = PageAt(call.list, call.offset) /\ Listed(call.list) = asFound
        BY <1>6, <1>7, <2>4, <3>2
      <4>2. (i - 1) * Limit(call.list) = call.offset
        BY <1>5, <1>8, <3>2 DEF d
      <4> QED
        BY <1>6, <3>2, <4>1, <4>2 DEF PageAt, PageOf
    <3> QED
      BY <1>5, <3>1, <3>2
  <2>5. \A i \in DOMAIN pages' : (i - 1) * Limit(call'.list) < call'.count
    BY <1>6, <2>2
  <2>6. Listed(call.list)' = asFound' =>
          \A i \in DOMAIN pages' : pages'[i].kind = "rows" =>
            pages'[i].rows = PageOf(asFound, call.list, (i - 1) * Limit(call.list))'
    <3>1. \A o : PageOf(asFound, call.list, o)' = PageOf(asFound, call.list, o)
      BY <1>4, <1>7 DEF PageOf, Limit
    <3>2. Limit(call.list)' = Limit(call.list)
      BY <1>4 DEF Limit
    <3>3. \A i \in DOMAIN pages' : PageOf(asFound, call.list, (i - 1) * Limit(call.list))'
                                     = PageOf(asFound, call.list, (i - 1) * Limit(call.list))
      BY <1>4, <1>7, <3>2 DEF PageOf
    <3> QED
      BY <1>6, <2>4, <3>3
  <2>7. Limit(call.list)' = Limit(call'.list)
    BY DEF Limit
  <2> QED
    BY <1>4, <2>1, <2>3, <2>5, <2>6, <2>7 DEF PagesAreOfList
<1>12. ListsOnlyGrow' /\ ListingIsWhole'
  BY <1>4, <1>7 DEF ListingInv, ListsOnlyGrow, ListingIsWhole
<1> QED
  BY <1>9, <1>10, <1>11, <1>12 DEF ListingInv

LEMMA AnsweredPage == ASSUME ListingInv, PageIsAnswered PROVE ListingInv'
<1> DEFINE page == [kind |-> "rows", rows |-> PageAt(call.list, call.offset)]
<1>1. PageAt(call.list, call.offset) \in Seq(Listable)
  <2> DEFINE l == Listed(call.list)
             from == Lower(call.offset, Window - Limit(call.list))
             to == Lower(from + Limit(call.list), Len(l))
  <2>1. l \in Seq(Listable) /\ Len(l) \in Nat /\ call.list \in ListNames /\ call.offset \in Nat
    BY ListedIsSequence DEF ListingInv, ListsAreSequences
  <2>2. Limit(call.list) \in Nat /\ Window \in Nat /\ Window - Limit(call.list) >= 0
    <3>1. PICK k \in Nat : Window = k * Limit(call.list)
      BY <2>1, LimitsAre
    <3>2. Limit(call.list) \in Nat \ {0} /\ Window \in Nat \ {0}
      BY <2>1, LimitsAre
    <3>3. k # 0
      BY <3>1, <3>2
    <3>4. 1 * Limit(call.list) <= k * Limit(call.list)
      BY <3>1, <3>2, <3>3
    <3> QED
      BY <3>1, <3>2, <3>4
  <2>3. from \in Nat
    BY <2>1, <2>2 DEF Lower
  <2>4. to \in Nat /\ to <= Len(l)
    BY <2>1, <2>2, <2>3 DEF Lower
  <2> HIDE DEF l, from, to
  <2>5. \A i \in (from + 1)..to : l[i] \in Listable
    BY <2>1, <2>3, <2>4, LenProperties
  <2>6. SubSeq(l, from + 1, to) \in Seq(Listable)
    BY <2>3, <2>4, <2>5, SubSeqProperties
  <2> QED
    BY <2>6 DEF PageAt, l, from, to
<1>2. page \in Pages
  BY <1>1 DEF Pages
<1>3. pages' = Append(pages, page) /\ MorePages /\ UNCHANGED <<account, listing, asFound, counted>>
      /\ call' = [call EXCEPT !.offset = @ + Limit(call.list)]
  BY DEF PageIsAnswered
<1>4. tokenLive' \in BOOLEAN /\ _authenticated' \in BOOLEAN /\ refusals' \in 0..MaxRefusals
  BY DEF PageIsAnswered, Answered, session, ListingInv, ListingTypeOK
<1>5. page.kind = "rows" => page.rows = PageAt(call.list, call.offset)
  OBVIOUS
<1> HIDE DEF page
<1> QED
  BY <1>2, <1>3, <1>4, <1>5, PageInvariant

LEMMA RefusedPage == ASSUME ListingInv, PageIsRefused PROVE ListingInv'
<1>1. PICK kind \in {"refused", "garbled"} :
        /\ IF kind = "refused" THEN Refused ELSE _authenticated /\ Refusal /\ UNCHANGED session
        /\ pages' = Append(pages, [kind |-> kind, rows |-> <<>>])
  BY Zenon DEF PageIsRefused
<1> DEFINE page == [kind |-> kind, rows |-> <<>>]
<1>2. page \in Pages /\ page.kind # "rows"
  BY EmptySeq DEF Pages
<1>3. MorePages /\ UNCHANGED <<account, listing, asFound, counted>>
      /\ call' = [call EXCEPT !.offset = @ + Limit(call.list)] /\ pages' = Append(pages, page)
  BY <1>1 DEF PageIsRefused
<1>4. tokenLive' \in BOOLEAN /\ _authenticated' \in BOOLEAN /\ refusals' \in 0..MaxRefusals
  <2>1. tokenLive \in BOOLEAN /\ _authenticated \in BOOLEAN /\ refusals \in 0..MaxRefusals
    BY DEF ListingInv, ListingTypeOK
  <2>2. Refused \/ (Refusal /\ UNCHANGED session)
    BY <1>1
  <2>3. CASE Refusal /\ UNCHANGED session
    BY <2>1, <2>3, RefusalCounts DEF session
  <2> QED
    BY <2>1, <2>2, <2>3, RefusedTypes
<1> HIDE DEF page
<1> QED
  BY <1>2, <1>3, <1>4, PageInvariant

LEMMA FailsInvariant ==
  ASSUME ListingInv, AttemptFails, call.at \in {"counts", "pages"},
         tokenLive' \in BOOLEAN, _authenticated' \in BOOLEAN, refusals' \in 0..MaxRefusals
  PROVE  ListingInv'
<1>1. call \in [list : ListNames, at : {"idle", "counts", "pages", "returned", "raised"},
                attempt : 0..ListingAttempts, count : Nat, offset : Nat] /\ call.attempt >= 1
  BY DEF ListingInv, ListsAreSequences
<1>2. UNCHANGED <<account, listing>>
  BY DEF AttemptFails
<1>3. Listed(call.list) \in Seq(Listable) /\ Len(Listed(call.list)) \in Nat
  BY ListedIsSequence
<1>4. CASE call.attempt < ListingAttempts
  <2>1. /\ call' = [call EXCEPT !.at = "counts", !.attempt = @ + 1, !.count = 0, !.offset = 0]
        /\ pages' = <<>> /\ asFound' = Listed(call.list) /\ counted' = FALSE
    BY <1>4 DEF AttemptFails, DroppedPages
  <2>2. /\ call' \in [list : ListNames, at : {"idle", "counts", "pages", "returned", "raised"},
                      attempt : 0..ListingAttempts, count : Nat, offset : Nat]
        /\ call'.at = "counts" /\ call'.list = call.list /\ call'.attempt >= 1
        /\ call'.offset = 0 /\ call'.count = 0
    <3>1. call.attempt + 1 \in 0..ListingAttempts /\ call.attempt + 1 >= 1
      BY <1>1, <1>4, ListingConstants
    <3>2. ASSUME NEW m \in 0..ListingAttempts, m >= 1,
                 call' = [call EXCEPT !.at = "counts", !.attempt = m, !.count = 0, !.offset = 0]
          PROVE  /\ call' \in [list : ListNames, at : {"idle", "counts", "pages", "returned", "raised"},
                               attempt : 0..ListingAttempts, count : Nat, offset : Nat]
                 /\ call'.at = "counts" /\ call'.list = call.list /\ call'.attempt >= 1
                 /\ call'.offset = 0 /\ call'.count = 0
      BY <1>1, <3>2
    <3>3. call' = [call EXCEPT !.at = "counts", !.attempt = call.attempt + 1, !.count = 0, !.offset = 0]
      BY <2>1
    <3> QED
      BY <3>1, <3>2, <3>3
  <2>3. Listed(call.list)' = Listed(call.list)
    BY <1>2, <2>2 DEF Listed
  <2>4. DOMAIN pages' = {} /\ pages' \in Seq(Pages)
    BY <2>1, EmptySeq
  <2>5. ListingTypeOK'
    <3>1. \A i \in DOMAIN pages' : pages'[i].kind \in {"rows", "refused", "garbled"}
      BY <2>4
    <3>2. call'.count \in 0..Len(Listed(call.list)')
      BY <1>3, <2>2, <2>3
    <3> QED
      BY <1>2, <2>1, <2>2, <3>1, <3>2 DEF ListingInv, ListingTypeOK
  <2>6. ListsAreSequences'
    BY <1>2, <1>3, <2>1, <2>2, <2>3, <2>4 DEF ListingInv, ListsAreSequences
  <2>7. ListsOnlyGrow' /\ PagesAreOfList' /\ ListingIsWhole'
    BY <2>1, <2>2, <2>3 DEF ListsOnlyGrow, PagesAreOfList, ListingIsWhole
  <2> QED
    BY <2>5, <2>6, <2>7 DEF ListingInv
<1>5. CASE ~(call.attempt < ListingAttempts)
  <2>1. call' = [call EXCEPT !.at = "raised"] /\ UNCHANGED <<pages, asFound, counted>>
    BY <1>5 DEF AttemptFails
  <2>2. /\ call' \in [list : ListNames, at : {"idle", "counts", "pages", "returned", "raised"},
                      attempt : 0..ListingAttempts, count : Nat, offset : Nat]
        /\ call'.at = "raised" /\ call'.list = call.list /\ call'.attempt = call.attempt
        /\ call'.count = call.count
    BY <1>1, <2>1
  <2>3. Listed(call.list)' = Listed(call.list)
    BY <1>2, <2>2 DEF Listed
  <2>4. ListingTypeOK'
    BY <1>2, <2>1, <2>2, <2>3 DEF ListingInv, ListingTypeOK
  <2>5. ListsAreSequences'
    BY <1>2, <2>1, <2>2, <2>3 DEF ListingInv, ListsAreSequences
  <2>6. ListsOnlyGrow' /\ PagesAreOfList' /\ ListingIsWhole'
    BY <1>2, <2>1, <2>2, <2>3 DEF ListingInv, ListsOnlyGrow, PagesAreOfList, ListingIsWhole
  <2> QED
    BY <2>4, <2>5, <2>6 DEF ListingInv
<1> QED
  BY <1>4, <1>5

\* A listing is collected from an attempt all of whose pages are good.
LEMMA CollectInvariant ==
  ASSUME ListingInv, call.at = "pages", ~MorePages, AllOk, Collect,
         UNCHANGED <<account, pages, asFound, counted>>, UNCHANGED <<session, refusals>>
  PROVE  ListingInv'
<1>0. tokenLive' = tokenLive /\ _authenticated' = _authenticated /\ refusals' = refusals
  BY DEF session
<1>1. call \in [list : ListNames, at : {"idle", "counts", "pages", "returned", "raised"},
                attempt : 0..ListingAttempts, count : Nat, offset : Nat] /\ call.attempt >= 1
  BY DEF ListingInv, ListsAreSequences
<1>2. PICK at \in {"raised", "returned"} :
         /\ call' = [call EXCEPT !.at = at]
         /\ at = "raised" => listing' = listing
         /\ at = "returned" => /\ \A i \in DOMAIN pages : pages[i].kind # "garbled"
                               /\ listing' = FlattenSeq([i \in DOMAIN pages |-> pages[i].rows])
  BY Zenon DEF Collect
<1>3. /\ call' \in [list : ListNames, at : {"idle", "counts", "pages", "returned", "raised"},
                    attempt : 0..ListingAttempts, count : Nat, offset : Nat]
      /\ call'.at = at /\ call'.list = call.list /\ call'.attempt = call.attempt
      /\ call'.count = call.count
  BY <1>1, <1>2
<1>4. Listed(call.list)' = Listed(call.list)
  BY <1>3 DEF Listed
<1> DEFINE q == [i \in DOMAIN pages |-> pages[i].rows]
           n == Len(pages)
<1>5. pages \in Seq(Pages) /\ n \in Nat /\ DOMAIN pages = 1..n
  BY LenProperties DEF ListingInv, ListsAreSequences
<1>6. q \in Seq(Seq(Listable)) /\ Len(q) = n /\ \A i \in 1..n : q[i] = pages[i].rows
  <2>1. \A i \in 1..n : pages[i] \in Pages
    BY <1>5, ElementOfSeq
  <2>2. \A i \in 1..n : pages[i].rows \in Seq(Listable)
    BY <2>1 DEF Pages
  <2>3. q \in [1..n -> Seq(Listable)]
    BY <1>5, <2>2
  <2> QED
    BY <1>5, <2>3
<1>7. ASSUME at = "returned", counted, Len(asFound) <= Window, Listed(call.list) = asFound
      PROVE  listing' = asFound
  <2>1. \A i \in 1..n : pages[i].kind = "rows"
    BY <1>2, <1>5, <1>7 DEF AllOk, ListingInv, ListingTypeOK
  <2>2. call.count = Len(asFound) /\ call.offset >= call.count /\ call.offset = n * Limit(call.list)
    BY <1>1, <1>7 DEF ListingInv, PagesAreOfList, MorePages
  <2>3. \A i \in 1..n : /\ (i - 1) * Limit(call.list) < Len(asFound)
                        /\ q[i] = PageOf(asFound, call.list, (i - 1) * Limit(call.list))
    BY <1>5, <1>6, <1>7, <2>1, <2>2 DEF ListingInv, PagesAreOfList
  <2>4. asFound \in Seq(Listable) /\ call.list \in ListNames
    BY DEF ListingInv, ListsAreSequences
  <2> HIDE DEF q, n
  <2>5. n * Limit(call.list) >= Len(asFound)
    BY <2>2
  <2>6. FlattenSeq(q) = asFound
    BY <1>5, <1>6, <1>7, <2>3, <2>4, <2>5, PagesMakeWhole
  <2> QED
    BY <1>2, <1>7, <2>6 DEF q
<1>9. ListingTypeOK'
  BY <1>0, <1>3, <1>4 DEF ListingInv, ListingTypeOK
<1>10. ListsAreSequences'
  BY <1>3, <1>4 DEF ListingInv, ListsAreSequences
<1>11. ListsOnlyGrow' /\ PagesAreOfList' /\ ListingIsWhole'
  BY <1>3, <1>4, <1>7 DEF ListingInv, ListsOnlyGrow, PagesAreOfList, ListingIsWhole
<1> QED
  BY <1>9, <1>10, <1>11 DEF ListingInv

LEMMA ListingStep == ListingInv /\ [ListingNext]_listingVars => ListingInv'
<1> SUFFICES ASSUME ListingInv, [ListingNext]_listingVars PROVE ListingInv'
  OBVIOUS
<1>0. tokenLive \in BOOLEAN /\ _authenticated \in BOOLEAN /\ refusals \in 0..MaxRefusals
  BY DEF ListingInv, ListingTypeOK
<1>1. CASE FilterAlphas \/ SearchFields \/ SearchDatasets
  BY <1>1, ListsInvariant DEF FilterAlphas, SearchFields, SearchDatasets, ListNames
<1>2. CASE Authenticate
  BY <1>0, <1>2, CallStays DEF Authenticate, CallParts
<1>3. CASE CountIsAnswered \/ CountIsRefused
  BY <1>3, CountInvariant
<1>4. CASE PageIsAnswered
  BY <1>4, AnsweredPage
<1>5. CASE PageIsRefused
  BY <1>5, RefusedPage
<1>6. CASE RequestRaises
  <2>1. tokenLive' = tokenLive /\ _authenticated' = _authenticated /\ AttemptFails
        /\ call.at \in {"counts", "pages"} /\ Refusal
    BY <1>6 DEF RequestRaises, MorePages, session
  <2> QED
    BY <1>0, <2>1, RefusalCounts, FailsInvariant
<1>7. CASE PagesEnd
  <2>1. CASE AllOk
    BY <1>7, <2>1, CollectInvariant DEF PagesEnd
  <2>2. CASE ~AllOk
    <3>1. tokenLive' = tokenLive /\ _authenticated' = _authenticated /\ refusals' = refusals
          /\ AttemptFails /\ call.at \in {"counts", "pages"}
      BY <1>7, <2>2 DEF PagesEnd, session
    <3> QED
      BY <1>0, <3>1, FailsInvariant
  <2> QED
    BY <2>1, <2>2
<1>8. CASE TokenExpires
  BY <1>0, <1>8, RefusalCounts, CallStays DEF TokenExpires, CallParts
<1>9. CASE AlphaAppears
  BY <1>9, AppearsInvariant
<1>10. CASE UNCHANGED listingVars
  BY <1>0, <1>10, CallStays DEF listingVars, CallParts, session
<1> QED
  BY <1>1, <1>2, <1>3, <1>4, <1>5, <1>6, <1>7, <1>8, <1>9, <1>10 DEF ListingNext, RequestStep

\* research_session.py: a call makes no more than its attempts, whose count is
\* never more than what the platform lists.
THEOREM ListingTypeCorrect == ListingSpec => []ListingTypeOK
<1>1. ListingInv => ListingTypeOK
  BY DEF ListingInv
<1> QED
  BY <1>1, ListingInitInvariant, ListingStep, PTL DEF ListingSpec

\* research_session.py: what filter_alphas and the searches return is the platform's
\* list, each entry once and in its order, however many pages were refused,
\* garbled or asked for again, if it fits the window and none came in meanwhile.
THEOREM ListingsAreWhole == ListingSpec => []ListingIsWhole
<1>1. ListingInv => ListingIsWhole
  BY DEF ListingInv
<1> QED
  BY <1>1, ListingInitInvariant, ListingStep, PTL DEF ListingSpec
=============================================================================
