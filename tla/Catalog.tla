------------------------------ MODULE Catalog ------------------------------
(***************************************************************************)
(* The product table and the cached list of published products             *)
(* (src/products/products.service.ts).  Whoever changes the table clears   *)
(* the cached list afterwards; whoever finds no list reads the table and   *)
(* stores what it read.  Both are two steps, and a list that is out of     *)
(* date when it is stored stays until its time to live is over.            *)
(*                                                                         *)
(* Mails and Notification rows about a product's status are left out.      *)
(***************************************************************************)
EXTENDS Naturals, FiniteSets

CONSTANTS Products,   \* product ids; each is used once
          Finds,      \* product finds (module Finds)
          Quotes,     \* quote ids; each is used once
          Workers,    \* handlers that may be in flight at once
          None,
          Targets,    \* bound: statuses that staff give to products
          Edited      \* bound: products whose content is edited, once each

ProductStatuses == {"draft", "verified", "published", "archived"}

ASSUME CatalogAssumption ==
  /\ None \notin Products \cup Finds \cup Quotes
  /\ Targets \subseteq ProductStatuses
  /\ Edited \subseteq Products

VARIABLES product,   \* product[p]: the Product row
          cache,     \* the value of cp:catalog:published:v1
          excused,   \* history: why the cached list may be out of date
          job        \* job[w]: the handler worker w is running

-----------------------------------------------------------------------------
\* edits counts the changes of the content; slug is the find whose title and
\* id make up the slug, find the one the product was made from.
ProductRows == [status : ProductStatuses \cup {"none"}, edits : Nat,
                slug : Finds \cup {None}, find : Finds \cup {None}]
NoProduct == [status |-> "none", edits |-> 0, slug |-> None, find |-> None]

\* The list as it is serialized: products with their content.
Lists == SUBSET (Products \X Nat)
Caches == [list : Lists, ttl : BOOLEAN, full : BOOLEAN]
NoList == [list |-> {}, ttl |-> FALSE, full |-> FALSE]

\* What a handler is about to do; those from "slug" on approve or reject a
\* find.
Stages == {"idle", "read", "store", "clear", "slug", "publish", "quote", "decide", "reject"}

Jobs == [op : Stages, list : Lists, find : Finds \cup {None}, slug : Finds \cup {None},
         prod : Products \cup {None}, quote : Quotes \cup {None}]
Idle == [op |-> "idle", list |-> {}, find |-> None, slug |-> None,
         prod |-> None, quote |-> None]

\* Slugs are unique, but for None: the slugs given by staff or made of a time.
CatalogTypeOK ==
  /\ product \in [Products -> ProductRows]
  /\ \A p \in Products : product[p].status = "none" => product[p] = NoProduct
  /\ \A p, o \in Products : product[p].slug = product[o].slug => p = o \/ product[p].slug = None
  /\ cache \in Caches
  /\ excused \in BOOLEAN
  /\ job \in [Workers -> Jobs]

CatalogInit ==
  /\ product = [p \in Products |-> NoProduct]
  /\ cache = NoList
  /\ excused = FALSE
  /\ job = [w \in Workers |-> Idle]

Free(w)   == job[w] = Idle
At(w, op) == job[w].op = op
Become(w, j) == job' = [job EXCEPT ![w] = j]
Finish(w)    == Become(w, Idle)

Exists(p) == product[p].status # "none"

\* findMany('published').  Bound: fewer than the 200 that are asked for.
Listed == {<<p, product[p].edits>> : p \in {p \in Products : product[p].status = "published"}}

-----------------------------------------------------------------------------
(* The cached list.                                                        *)

\* listPublished finds no list.  (One that is found is answered at once.)
ListPublished(w) ==
  /\ Free(w)
  /\ ~cache.full
  /\ Become(w, [Idle EXCEPT !.op = "read"])
  /\ UNCHANGED <<product, cache, excused>>

ReadForCache(w) ==
  /\ At(w, "read")
  /\ Become(w, [Idle EXCEPT !.op = "store", !.list = Listed])
  /\ UNCHANGED <<product, cache, excused>>

\* Slip: a list without a time to live.
StoredForever(list) == [list |-> list, ttl |-> FALSE, full |-> TRUE]

Stored(list) == [list |-> list, ttl |-> TRUE, full |-> TRUE]

StoreList(w) ==
  /\ At(w, "store")
  /\ cache' = Stored(job[w].list)
  /\ excused' = (job[w].list # Listed)
  /\ Finish(w)
  /\ UNCHANGED product

\* Redis drops a key whose time is over.
CacheExpires ==
  /\ cache.ttl
  /\ cache' = NoList
  /\ excused' = FALSE
  /\ UNCHANGED <<product, job>>

\* invalidateCatalogCache; an approval goes on from there.
InvalidateCatalogCache(w) ==
  /\ At(w, "clear")
  /\ cache' = NoList
  /\ excused' = FALSE
  /\ \/ job[w].find = None /\ Finish(w)
     \/ job[w].find # None /\ Become(w, [job[w] EXCEPT !.op = "quote"])
  /\ UNCHANGED product

-----------------------------------------------------------------------------
(* Staff change products.                                                  *)

Clears(w) == Become(w, [Idle EXCEPT !.op = "clear"])

Create(w, p, s) ==
  /\ Free(w)
  /\ ~Exists(p)
  /\ product' = [product EXCEPT ![p] = [NoProduct EXCEPT !.status = s]]
  /\ Clears(w)
  /\ UNCHANGED <<cache, excused>>

\* update (and publish, which is update to "published"): the content, the
\* status, or both; edit is 1 if the content changes.
Update(w, p, s, edit) ==
  /\ Free(w)
  /\ Exists(p)
  /\ edit = 1 => p \in Edited /\ product[p].edits = 0
  /\ product' = [product EXCEPT ![p] =
                   [product[p] EXCEPT !.status = s, !.edits = product[p].edits + edit]]
  /\ Clears(w)
  /\ UNCHANGED <<cache, excused>>

\* Slip: the cached list is left alone.
BulkOnly(w, ps, s) ==
  /\ Free(w)
  /\ product' = [p \in Products |->
                   IF p \in ps /\ Exists(p) THEN [product[p] EXCEPT !.status = s]
                                            ELSE product[p]]
  /\ UNCHANGED <<cache, excused, job>>

\* updateMany passes over ids that do not exist.
BulkUpdateStatus(w, ps, s) ==
  /\ Free(w)
  /\ ps # {}
  /\ product' = [p \in Products |->
                   IF p \in ps /\ Exists(p) THEN [product[p] EXCEPT !.status = s]
                                            ELSE product[p]]
  /\ Clears(w)
  /\ UNCHANGED <<cache, excused>>

\* A process dies; of several, over one Redis.  (The one process of the
\* in-memory cache takes the list with it, as if it had expired.)
Die(w) ==
  /\ ~Free(w)
  /\ Finish(w)
  /\ excused' = (excused \/ At(w, "clear"))
  /\ UNCHANGED <<product, cache>>

-----------------------------------------------------------------------------
CatalogCall(w) ==
  \/ ListPublished(w)
  \/ \E s \in Targets :
       \/ \E p \in Products : Create(w, p, s) \/ \E edit \in 0..1 : Update(w, p, s, edit)
       \/ \E ps \in SUBSET Products : BulkUpdateStatus(w, ps, s)

CatalogContinue(w) == ReadForCache(w) \/ StoreList(w) \/ InvalidateCatalogCache(w)
=============================================================================
