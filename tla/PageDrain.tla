----------------------------- MODULE PageDrain -----------------------------
(***************************************************************************)
(* The traversal of a paged service: Drain of app/pagination, and the list *)
(* that samplecmd makes of what it returns.  The service is not trusted:   *)
(* any page may follow any cursor, with too many items, an unsafe cursor   *)
(* or one it gave before, or an error; the caller may cancel at any time.  *)
(***************************************************************************)
EXTENDS Naturals, Sequences, FiniteSets

CONSTANTS
  Items,                        \* the items of the service, told apart by their IDs
  Tokens, First, BadToken,      \* cursors; the empty one; one ValidateToken refuses
  PageSize, MaxPages, MaxItems  \* the budget of the use case

ASSUME BudgetAssumption == {PageSize, MaxPages, MaxItems} \subseteq Nat \ {0}

VARIABLES
  walk,      \* the traversal: its step, cursor, items so far, cursors seen, answer
  sent,      \* ghost: the pages the service sent, and the cursor each was asked with
  stopped    \* the context of the caller is canceled

drainVars == <<walk, sent, stopped>>

Fault(code, retry) == [kind |-> "fault", code |-> code, retry |-> retry, items |-> <<>>]
Pending == [kind |-> "pending", code |-> "", retry |-> FALSE, items |-> <<>>]
Pages == UNION {[1..n -> Items] : n \in 0..(PageSize + 1)}
Malformed == {"page error", "final fault", "retryable fault"}

Walking(step) == walk.step = step
Move(step) == walk' = [walk EXCEPT !.step = step]
Answer(answer) == walk' = [walk EXCEPT !.step = "done", !.answer = answer]
Canceled == Fault("operation_canceled", TRUE)

\* The head of the loop: the page limit, then the context.
NextPage ==
  /\ Walking("next")
  /\ IF walk.page > MaxPages THEN Answer(Fault("pagination_page_limit", FALSE))
     ELSE IF stopped THEN Answer(Canceled)
     ELSE Move("fetch")
  /\ UNCHANGED <<sent, stopped>>

\* fetch: the service answers the exact cursor with a page or an error.
Fetch ==
  /\ Walking("fetch")
  /\ \/ \E items \in Pages, next \in Tokens \cup {First, BadToken} :
          /\ walk' = [walk EXCEPT !.step = "read", !.got = items, !.next = next]
          /\ sent' = Append(sent, [asked |-> walk.token, items |-> items, next |-> next])
     \/ \E error \in Malformed :
          walk' = [walk EXCEPT !.step = "read", !.error = error] /\ UNCHANGED sent
  /\ UNCHANGED stopped

\* Mutant: the items of a page that ends the traversal are not counted against the budget.
RefusalBeforeEnd ==
  CASE stopped -> Canceled
    [] ~stopped /\ walk.error = "final fault" -> Fault("service_fault", FALSE)
    [] ~stopped /\ walk.error = "retryable fault" -> Fault("service_fault", TRUE)
    [] ~stopped /\ walk.error = "page error" -> Fault("page_fetch_failed", TRUE)
    [] ~stopped /\ walk.error = "none" /\ (walk.next = BadToken \/ Len(walk.got) > PageSize) ->
         Fault("invalid_page_contract", FALSE)
    [] ~stopped /\ walk.error = "none" /\ walk.next # BadToken /\ Len(walk.got) <= PageSize ->
         IF walk.next # First /\ Len(walk.got) > MaxItems - Len(walk.items)
         THEN Fault("pagination_item_limit", FALSE) ELSE Pending

\* What refuses the page just fetched, in the order of the loop; a structured fault passes as it is.
Refusal ==
  CASE stopped -> Canceled
    [] ~stopped /\ walk.error = "final fault" -> Fault("service_fault", FALSE)
    [] ~stopped /\ walk.error = "retryable fault" -> Fault("service_fault", TRUE)
    [] ~stopped /\ walk.error = "page error" -> Fault("page_fetch_failed", TRUE)
    [] ~stopped /\ walk.error = "none" /\ (walk.next = BadToken \/ Len(walk.got) > PageSize) ->
         Fault("invalid_page_contract", FALSE)
    [] ~stopped /\ walk.error = "none" /\ walk.next # BadToken /\ Len(walk.got) <= PageSize ->
         IF Len(walk.got) > MaxItems - Len(walk.items) THEN Fault("pagination_item_limit", FALSE) ELSE Pending

\* A cursor seen before ends the traversal without a result, the first page's cursor included.
ReadPage ==
  /\ Walking("read")
  /\ LET more == [walk EXCEPT !.items = @ \o walk.got, !.got = <<>>]
     IN  IF Refusal # Pending THEN Answer(Refusal)
         ELSE IF walk.next = First THEN walk' = [more EXCEPT !.step = "last"]
         ELSE IF walk.next \in walk.seen THEN Answer(Fault("pagination_cursor_loop", FALSE))
         ELSE walk' = [more EXCEPT !.step = "next", !.page = @ + 1, !.token = walk.next, !.seen = @ \cup {walk.next}]
  /\ UNCHANGED <<sent, stopped>>

\* The context is asked once more before complete items leave Drain.
Complete ==
  /\ Walking("last")
  /\ IF stopped THEN Answer(Canceled) ELSE Move("list")
  /\ UNCHANGED <<sent, stopped>>

Distinct(items) == \A i, j \in DOMAIN items : items[i] = items[j] => i = j

\* List of samplecmd: an ID that comes twice, on one page or on two, is no result; nor is a late cancellation.
List ==
  /\ Walking("list")
  /\ IF ~Distinct(walk.items) THEN Answer(Fault("unclassified", FALSE))
     ELSE IF stopped THEN Answer(Fault("context", FALSE))
     ELSE Answer([Pending EXCEPT !.kind = "items", !.items = walk.items])
  /\ UNCHANGED <<sent, stopped>>

CancelDrain == ~stopped /\ ~Walking("done") /\ stopped' = TRUE /\ UNCHANGED <<walk, sent>>

DrainInit ==
  /\ walk = [step |-> "next", page |-> 1, token |-> First, items |-> <<>>, seen |-> {First}, got |-> <<>>,
             next |-> First, error |-> "none", answer |-> Pending]
  /\ sent = <<>>
  /\ stopped \in BOOLEAN

DrainStep == NextPage \/ Fetch \/ ReadPage \/ Complete \/ List
DrainNext == DrainStep \/ CancelDrain
DrainSpec == DrainInit /\ [][DrainNext]_drainVars
-----------------------------------------------------------------------------
(* Properties.                                                              *)

AllItems == LET upto[k \in 0..Len(sent)] == IF k = 0 THEN <<>> ELSE upto[k - 1] \o sent[k].items IN upto[Len(sent)]

\* The service answered as a paged service should, and its whole answer fits the budget.
Whole ==
  /\ sent # <<>> /\ Len(sent) <= MaxPages
  /\ \A k \in DOMAIN sent : Len(sent[k].items) <= PageSize /\ sent[k].next # BadToken
  /\ \A k \in DOMAIN sent : sent[k].asked = IF k = 1 THEN First ELSE sent[k - 1].next
  /\ \A k \in DOMAIN sent : sent[k].next = First <=> k = Len(sent)
  /\ Distinct([k \in DOMAIN sent |-> sent[k].asked])
  /\ Len(AllItems) <= MaxItems /\ Distinct(AllItems)

\* A list is the whole answer of the service, in its order, or nothing: no item of a broken, looping or
\* oversized traversal is ever shown, and an answer that exactly fills a budget is never refused (Drain).
CompleteOrNothing ==
  /\ walk.answer.kind = "items" => Whole /\ walk.answer.items = AllItems
  /\ Walking("done") /\ Whole /\ walk.error = "none" /\ ~stopped => walk.answer.kind = "items"
=============================================================================
