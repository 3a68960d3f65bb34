---------------------------- MODULE AlphaListing ----------------------------
(***************************************************************************)
(* How the platform's lists are read: BrainSession                         *)
(* (platform/research_session.py) over the pages of WQBSession             *)
(* (platform/session.py).  filter_alphas lists the account's alphas, as    *)
(* fetch_submitted asks for them; data fields and data sets are listed by  *)
(* the same _pages and _run_generator, in pages of half the size.          *)
(*                                                                         *)
(* A first request asks for one row and tells how many there are; then     *)
(* every page is asked for, whatever the earlier ones were answered, and   *)
(* only then are they looked at.  The session asks once: a refusal is an   *)
(* answer too.  Meanwhile the token may expire and, from a scan, alphas    *)
(* come in at the front.                                                   *)
(***************************************************************************)
EXTENDS Integers, SequencesExt

CONSTANTS
  Account,         \* the alphas of the account, newest first
  NewAlphas,       \* those that a scan may add
  DataFields, DataSets, \* lists of the platform's own; they stay
  PageLimit,       \* limit=100, of alphas
  SearchLimit,     \* limit=50, of fields and sets
  Window,          \* offsets end at 10000 - limit
  ListingAttempts, \* RetryPolicy.max_attempts
  MaxRefusals      \* bound: refused, garbled or lost requests, expired tokens

ASSUME ListingConstants ==
  /\ {PageLimit, SearchLimit} \subseteq Nat \ {0}
  /\ Window \in Nat \ {0}
  /\ \A limit \in {PageLimit, SearchLimit} : \E k \in 1..Window : Window = k * limit
  /\ \A list \in {Account, DataFields, DataSets} : list \in Seq(ToSet(list))
  /\ ListingAttempts \in Nat \ {0} /\ MaxRefusals \in Nat

VARIABLES
  account,        \* the platform's list
  tokenLive,      \* the platform takes the session's token
  _authenticated, \* what the session believes
  call,           \* [list, at, attempt, count, offset]
  pages,          \* the responses of the attempt: [kind, rows]
  listing,        \* what the last call has returned
  asFound,        \* history: the list when the attempt began
  counted,        \* history: the attempt's count was answered
  refusals

session == <<tokenLive, _authenticated>>
listingVars == <<account, session, call, pages, listing, asFound, counted, refusals>>

Refusal == refusals < MaxRefusals /\ refusals' = refusals + 1
Lower(m, n) == IF m < n THEN m ELSE n

NoCall == [list |-> "alphas", at |-> "idle", attempt |-> 0, count |-> 0, offset |-> 0]

Listed(list) ==
  CASE list = "alphas" -> account [] list = "fields" -> DataFields [] list = "sets" -> DataSets

\* create_session authenticates.
ListingInit ==
  /\ account = Account /\ tokenLive = TRUE /\ _authenticated = TRUE
  /\ call = NoCall /\ pages = <<>> /\ listing = <<>>
  /\ asFound = Account /\ counted = FALSE /\ refusals = 0

----------------------------------------------------------------------------
(* The platform                                                            *)

TokenExpires ==
  /\ tokenLive /\ Refusal /\ tokenLive' = FALSE
  /\ UNCHANGED <<account, _authenticated, call, pages, listing, asFound, counted>>

AlphaAppears ==
  /\ \E a \in NewAlphas \ ToSet(account) : account' = <<a>> \o account
  /\ UNCHANGED <<session, call, pages, listing, asFound, counted, refusals>>

----------------------------------------------------------------------------
(* One request: request with max_tries = 1 and nothing expected            *)

\* authenticate, on the request after one that was answered 401.
Authenticate ==
  /\ call.at \in {"counts", "pages"} /\ ~_authenticated
  /\ _authenticated' = TRUE /\ tokenLive' = TRUE
  /\ UNCHANGED <<account, call, pages, listing, asFound, counted, refusals>>

\* The platform answers; a 401 makes the session authenticate the next time.
Answered == _authenticated /\ tokenLive /\ UNCHANGED <<session, refusals>>
Refused ==
  /\ _authenticated
  /\ \/ ~tokenLive /\ _authenticated' = FALSE /\ UNCHANGED <<tokenLive, refusals>>
     \/ Refusal /\ UNCHANGED session

----------------------------------------------------------------------------
(* _pages: the count, then the pages                                       *)

Limit(list) == IF list = "alphas" THEN PageLimit ELSE SearchLimit

\* filter_alphas_limited and its like: no offset goes beyond the window.
PageAt(list, offset) ==
  LET from == Lower(offset, Window - Limit(list))
  IN  SubSeq(Listed(list), from + 1, Lower(from + Limit(list), Len(Listed(list))))

CountIsAnswered ==
  /\ call.at = "counts" /\ Answered
  /\ call' = [call EXCEPT !.at = "pages", !.count = Len(Listed(call.list))]
  /\ counted' = TRUE
  /\ UNCHANGED <<account, pages, listing, asFound>>

\* An error, or no JSON: _json_or_empty has no count, and there is no page.
CountIsRefused ==
  /\ call.at = "counts" /\ Refused
  /\ call' = [call EXCEPT !.at = "pages", !.count = 0]
  /\ UNCHANGED <<account, pages, listing, asFound, counted>>

MorePages == call.at = "pages" /\ call.offset < call.count

PageIsAnswered ==
  /\ MorePages /\ Answered
  /\ pages' = Append(pages, [kind |-> "rows", rows |-> PageAt(call.list, call.offset)])
  /\ call' = [call EXCEPT !.offset = @ + Limit(call.list)]
  /\ UNCHANGED <<account, listing, asFound, counted>>

\* An error, or (with status 200) no JSON.
PageIsRefused ==
  /\ MorePages
  /\ \E kind \in {"refused", "garbled"} :
       /\ IF kind = "refused" THEN Refused
          ELSE _authenticated /\ Refusal /\ UNCHANGED session
       /\ pages' = Append(pages, [kind |-> kind, rows |-> <<>>])
  /\ call' = [call EXCEPT !.offset = @ + Limit(call.list)]
  /\ UNCHANGED <<account, listing, asFound, counted>>

----------------------------------------------------------------------------
(* _run_generator: the attempts                                            *)

\* In a new process.
Lists(list) ==
  /\ call.at \in {"idle", "returned", "raised"}
  /\ call' = [NoCall EXCEPT !.list = list, !.at = "counts", !.attempt = 1]
  /\ pages' = <<>> /\ listing' = <<>> /\ asFound' = Listed(list) /\ counted' = FALSE
  /\ tokenLive' = TRUE /\ _authenticated' = TRUE
  /\ UNCHANGED <<account, refusals>>

FilterAlphas == Lists("alphas")
SearchFields == Lists("fields")
SearchDatasets == Lists("sets")

\* Faulty variant: the pages of the failed attempt are kept.
KeptPages == pages

\* The next attempt starts from no pages.
DroppedPages == <<>>
AllOk == \A i \in DOMAIN pages : pages[i].kind # "refused"

AttemptFails ==
  /\ IF call.attempt < ListingAttempts
       THEN /\ call' = [call EXCEPT !.at = "counts", !.attempt = @ + 1, !.count = 0, !.offset = 0]
            /\ pages' = DroppedPages /\ asFound' = Listed(call.list) /\ counted' = FALSE
       ELSE call' = [call EXCEPT !.at = "raised"] /\ UNCHANGED <<pages, asFound, counted>>
  /\ UNCHANGED <<account, listing>>

\* A transport error, or ten vain attempts to authenticate.
RequestRaises ==
  /\ call.at = "counts" \/ MorePages
  /\ Refusal /\ UNCHANGED session /\ AttemptFails

\* _collect_results raises outside of the attempts.
Collect ==
  IF \E i \in DOMAIN pages : pages[i].kind = "garbled"
    THEN call' = [call EXCEPT !.at = "raised"] /\ UNCHANGED listing
    ELSE /\ call' = [call EXCEPT !.at = "returned"]
         /\ listing' = FlattenSeq([i \in DOMAIN pages |-> pages[i].rows])

PagesEnd ==
  /\ call.at = "pages" /\ ~MorePages
  /\ IF AllOk THEN Collect /\ UNCHANGED <<account, pages, asFound, counted>> ELSE AttemptFails
  /\ UNCHANGED <<session, refusals>>

----------------------------------------------------------------------------
RequestStep ==
  \/ Authenticate \/ CountIsAnswered \/ CountIsRefused
  \/ PageIsAnswered \/ PageIsRefused \/ RequestRaises \/ PagesEnd
ListingNext ==
  \/ FilterAlphas \/ SearchFields \/ SearchDatasets
  \/ RequestStep \/ TokenExpires \/ AlphaAppears
ListingSpec == ListingInit /\ [][ListingNext]_listingVars

----------------------------------------------------------------------------
(* Properties                                                              *)

ListingTypeOK ==
  /\ ToSet(account) \subseteq ToSet(Account) \cup NewAlphas
  /\ tokenLive \in BOOLEAN /\ _authenticated \in BOOLEAN /\ counted \in BOOLEAN
  /\ call.at \in {"idle", "counts", "pages", "returned", "raised"}
  /\ call.attempt \in 0..ListingAttempts /\ call.count \in 0..Len(Listed(call.list))
  /\ \A i \in DOMAIN pages : pages[i].kind \in {"rows", "refused", "garbled"}
  /\ refusals \in 0..MaxRefusals

\* A listing that is returned is whole, each alpha once, whatever was refused,
\* lost or tried again on the way: if the last attempt was told how many there
\* are, they fit the window, and none came in during it.
ListingIsWhole ==
  call.at = "returned" /\ counted /\ Len(asFound) <= Window /\ Listed(call.list) = asFound
    => listing = asFound
=============================================================================
