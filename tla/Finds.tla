------------------------------- MODULE Finds -------------------------------
(***************************************************************************)
(* Product finds: an agent proposes a product for a request, a reviewer    *)
(* approves it (it is published in the store and offered as a quote) or    *)
(* rejects it (src/ops-console/ops-console.service.ts).  An approval is a  *)
(* sequence of statements, each committed on its own; what it does to the  *)
(* order is module FindApproval.  An approval makes a quote of the order,  *)
(* and submitQuotes, which knows nothing of finds, deletes all of those.   *)
(***************************************************************************)
EXTENDS Catalog

VARIABLES find,    \* find[f]: the ProductFind row
          quote,   \* quote[q]: the find in Quote.supplierRef
          withdrawn  \* the quotes that have been deleted since

vars == <<product, cache, excused, job, find, quote, withdrawn>>

FindStatuses == {"draft", "pending_review", "sent", "rejected"}
FindRows == [status : FindStatuses \cup {"none"}, prod : Products \cup {None},
             quote : Quotes \cup {None}]
NoFind == [status |-> "none", prod |-> None, quote |-> None]

TypeOK ==
  /\ CatalogTypeOK
  /\ find \in [Finds -> FindRows]
  /\ quote \in [Quotes -> Finds \cup {None}]
  /\ withdrawn \subseteq Quotes

Init ==
  /\ CatalogInit
  /\ find = [f \in Finds |-> NoFind]
  /\ quote = [q \in Quotes |-> None]
  /\ withdrawn = {}

-----------------------------------------------------------------------------
\* On a request that is not cancelled.
CreateProductFind(f, submitForReview) ==
  /\ find[f] = NoFind
  /\ find' = [find EXCEPT ![f].status = IF submitForReview THEN "pending_review" ELSE "draft"]
  /\ UNCHANGED <<product, cache, excused, job, quote, withdrawn>>

\* Slip: anything that was not sent.
Unsent(f) == find[f].status \notin {"none", "sent"}

Pending(f) == find[f].status = "pending_review"

ApproveProductFind(w, f) ==
  /\ Free(w)
  /\ Pending(f)
  /\ Become(w, [Idle EXCEPT !.op = "slug", !.find = f])
  /\ UNCHANGED <<product, cache, excused, find, quote, withdrawn>>

\* Slip: archived products are passed over.
SlugListed(f) == \E p \in Products : product[p].slug = f /\ product[p].status = "published"

SlugTaken(f) == \E p \in Products : product[p].slug = f

\* Title and id make up the slug, or title and time if that one is taken.
ChooseSlug(w) ==
  LET f == job[w].find IN
  /\ At(w, "slug")
  /\ Become(w, [job[w] EXCEPT !.op = "publish", !.slug = IF SlugTaken(f) THEN None ELSE f])
  /\ UNCHANGED <<product, cache, excused, find, quote, withdrawn>>

\* Slugs are unique: the insert fails if another approval was faster.
PublishFind(w) ==
  LET f == job[w].find  s == job[w].slug IN
  /\ At(w, "publish")
  /\ \/ /\ s # None /\ SlugTaken(s)
        /\ Finish(w)
        /\ UNCHANGED product
     \/ /\ s = None \/ ~SlugTaken(s)
        /\ \E p \in Products :
             /\ ~Exists(p)
             /\ product' = [product EXCEPT ![p] =
                              [status |-> "published", edits |-> 0, slug |-> s, find |-> f]]
             /\ Become(w, [job[w] EXCEPT !.op = "clear", !.prod = p])
  /\ UNCHANGED <<cache, excused, find, quote, withdrawn>>

OfferFind(w) ==
  /\ At(w, "quote")
  /\ \E q \in Quotes :
       /\ quote[q] = None
       /\ quote' = [quote EXCEPT ![q] = job[w].find]
       /\ Become(w, [job[w] EXCEPT !.op = "decide", !.quote = q])
  /\ UNCHANGED <<product, cache, excused, find, withdrawn>>

\* Slip: the row keeps the quote it had.
Sent(w) == [find[job[w].find] EXCEPT !.status = "sent", !.prod = job[w].prod]

SentRow(w) == [status |-> "sent", prod |-> job[w].prod, quote |-> job[w].quote]

DecideFind(w) ==
  /\ At(w, "decide")
  /\ find' = [find EXCEPT ![job[w].find] = SentRow(w)]
  /\ Finish(w)
  /\ UNCHANGED <<product, cache, excused, quote, withdrawn>>

RejectProductFind(w, f) ==
  /\ Free(w)
  /\ Pending(f)
  /\ Become(w, [Idle EXCEPT !.op = "reject", !.find = f])
  /\ UNCHANGED <<product, cache, excused, find, quote, withdrawn>>

RejectFind(w) ==
  /\ At(w, "reject")
  /\ find' = [find EXCEPT ![job[w].find].status = "rejected"]
  /\ Finish(w)
  /\ UNCHANGED <<product, cache, excused, quote, withdrawn>>

\* A re-quote of the order that has the finds F deletes its quotes; the finds
\* go on naming them, as quoteId is no foreign key.
SubmitQuotes(F) ==
  /\ withdrawn' = withdrawn \cup {q \in Quotes : quote[q] \in F}
  /\ UNCHANGED <<product, cache, excused, job, find, quote>>

-----------------------------------------------------------------------------
Call(w) ==
  \/ CatalogCall(w) /\ UNCHANGED <<find, quote, withdrawn>>
  \/ \E f \in Finds : ApproveProductFind(w, f) \/ RejectProductFind(w, f)

Continue(w) ==
  \/ CatalogContinue(w) /\ UNCHANGED <<find, quote, withdrawn>>
  \/ ChooseSlug(w) \/ PublishFind(w) \/ OfferFind(w) \/ DecideFind(w) \/ RejectFind(w)

Next ==
  \/ \E f \in Finds, submit \in BOOLEAN : CreateProductFind(f, submit)
  \/ \E F \in SUBSET Finds : SubmitQuotes(F)
  \/ \E w \in Workers : Call(w) \/ Continue(w) \/ (Die(w) /\ UNCHANGED <<find, quote, withdrawn>>)
  \/ CacheExpires /\ UNCHANGED <<find, quote, withdrawn>>

\* Redis drops what has a time to live.  Nothing else has to happen.
Fairness == WF_vars(CacheExpires /\ UNCHANGED <<find, quote, withdrawn>>)

Spec == Init /\ [][Next]_vars /\ Fairness

-----------------------------------------------------------------------------
Stale == cache.full /\ cache.list # Listed

(* A cached list that is out of date is about to be cleared by the handler *)
(* that changed a product, or was stored over a change (listPublished) or  *)
(* missed its clearing because a process died: no handler that changes a   *)
(* product ends with the old list in place.                                *)
StaleOnlyByRace == Stale => excused \/ \E w \in Workers : At(w, "clear")

(* Nobody is shown an old list for ever: whatever raced or died, it lasts  *)
(* for its time to live (CACHE_TTL_SEC).                                   *)
StaleListEnds == Stale ~> ~Stale

\* What was ever published or offered of a find.
Made(f) == {p \in Products : product[p].find = f} \cup {q \in Quotes : quote[q] = f}

(* Nothing is published or offered of a find that was never submitted for  *)
(* review (approveProductFind).                                            *)
ReviewedFirst == \A f \in Finds : find[f].status \in {"none", "draft"} => Made(f) = {}

(* The product that a sent find names is there and was made from it, and   *)
(* the quote it names was made for it, whichever of several approvals came *)
(* last; a rejected find names either both or none.  That the quote is     *)
(* still there is not promised: a re-quote may have deleted it.            *)
SentFindsNameTheirOwn ==
  \A f \in Finds :
    LET r == find[f] IN
    /\ r.status = "sent" => r.prod # None
    /\ (r.prod = None) <=> (r.quote = None)
    /\ r.prod # None => /\ Exists(r.prod)
                        /\ product[r.prod].find = f
                        /\ quote[r.quote] = f

Closed(f) ==
  /\ find[f].status \in {"sent", "rejected"}
  /\ \A w \in Workers : job[w].find # f

(* A decision stands: once a find is decided and nobody is reviewing it,   *)
(* no later call reviews it again, and it is not published or offered      *)
(* again (approveProductFind, rejectProductFind).                          *)
DecisionStands ==
  [][\A f \in Finds :
        Closed(f) => Closed(f)' /\ find'[f] = find[f] /\ Made(f)' = Made(f)]_vars
=============================================================================
