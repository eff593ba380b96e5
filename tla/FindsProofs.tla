---------------------------- MODULE FindsProofs ----------------------------
(***************************************************************************)
(* Theorems about Finds and Catalog, for any sets of products, finds,      *)
(* quotes and workers.                                                     *)
(***************************************************************************)
EXTENDS Finds, TLAPS

(* What a handler carries: an approval knows its find all along, its       *)
(* product once it is published and its quote once it is offered.          *)
JobOK(j) ==
  /\ j.op \in {"idle", "read", "store"} => j.find = None
  /\ j.op \in {"slug", "publish", "quote", "decide", "reject"} => j.find # None
  /\ j.slug \in {j.find, None}
  /\ j.op \in {"quote", "decide"} => j.prod # None
  /\ j.op = "clear" /\ j.find # None => j.prod # None
  /\ j.op = "decide" => j.quote # None

TypeInv == TypeOK /\ \A w \in Workers : JobOK(job[w])

LEMMA IdleIsJob == Idle \in Jobs /\ JobOK(Idle)
BY DEF Idle, Jobs, Stages, Lists, JobOK

LEMMA InitType == Init => TypeInv
<1> SUFFICES ASSUME Init PROVE TypeInv
  OBVIOUS
<1>1. NoProduct \in ProductRows /\ NoList \in Caches /\ NoFind \in FindRows
  BY DEF NoProduct, ProductRows, NoList, Caches, Lists, NoFind, FindRows
<1>2. \A p \in Products : product[p] = NoProduct
  BY DEF Init, CatalogInit
<1>3. NoProduct.slug = None
  BY DEF NoProduct
<1> QED BY <1>1, <1>2, <1>3, IdleIsJob DEF Init, CatalogInit, TypeInv, TypeOK, CatalogTypeOK

(* The handlers other than w keep what they carry.                         *)
LEMMA Becomes ==
  ASSUME job \in [Workers -> Jobs], NEW w \in Workers, NEW j \in Jobs, Become(w, j)
  PROVE  /\ job' \in [Workers -> Jobs]
         /\ job'[w] = j
         /\ \A v \in Workers \ {w} : job'[v] = job[v]
BY DEF Become

LEMMA ListedIsList == CatalogTypeOK => Listed \in Lists
BY DEF CatalogTypeOK, Listed, Lists, ProductRows

(* Steps that only change what a handler carries.                          *)
LEMMA CarryType ==
  ASSUME TypeInv, NEW w \in Workers, NEW j \in Jobs, JobOK(j), Become(w, j)
  PROVE  job' \in [Workers -> Jobs] /\ \A v \in Workers : JobOK(job[v])'
BY Becomes DEF TypeInv, TypeOK, CatalogTypeOK, JobOK

LEMMA CatalogCallType ==
  ASSUME TypeInv, NEW w \in Workers, CatalogCall(w), UNCHANGED <<find, quote, withdrawn>>
  PROVE  TypeInv'
<1> DEFINE reader == [Idle EXCEPT !.op = "read"]
           clearer == [Idle EXCEPT !.op = "clear"]
<1>j. /\ reader \in Jobs /\ JobOK(reader)
      /\ clearer \in Jobs /\ JobOK(clearer)
  BY DEF Idle, Jobs, Stages, Lists, JobOK
<1>1. CASE ListPublished(w)
  <2>1. Become(w, reader) /\ UNCHANGED <<product, cache, excused>>
    BY <1>1 DEF ListPublished
  <2> HIDE DEF reader
  <2> QED BY <1>j, <2>1, CarryType DEF TypeInv, TypeOK, CatalogTypeOK
<1>2. ASSUME Become(w, clearer), UNCHANGED <<cache, excused>>,
             product' \in [Products -> ProductRows],
             \A p \in Products : product'[p].status = "none" => product'[p] = NoProduct,
             \A p \in Products : product'[p].slug = product[p].slug
      PROVE  TypeInv'
  <2> HIDE DEF clearer
  <2> QED BY <1>j, <1>2, CarryType DEF TypeInv, TypeOK, CatalogTypeOK
<1>3. ASSUME NEW p \in Products, NEW s \in Targets, Create(w, p, s) PROVE TypeInv'
  <2>1. product[p] = NoProduct /\ s \in ProductStatuses
    BY <1>3, CatalogAssumption DEF Create, Exists, TypeInv, TypeOK, CatalogTypeOK
  <2>2. Become(w, clearer) /\ UNCHANGED <<cache, excused>>
    BY <1>3 DEF Create, Clears
  <2>3. product' = [product EXCEPT ![p] = [NoProduct EXCEPT !.status = s]]
    BY <1>3 DEF Create
  <2> HIDE DEF clearer
  <2> QED BY <1>2, <2>1, <2>2, <2>3 DEF TypeInv, TypeOK, CatalogTypeOK, ProductRows, NoProduct, ProductStatuses
<1>4. ASSUME NEW p \in Products, NEW s \in Targets, NEW edit \in 0..1, Update(w, p, s, edit)
      PROVE  TypeInv'
  <2>1. Exists(p) /\ s \in ProductStatuses
    BY <1>4, CatalogAssumption DEF Update
  <2>2. Become(w, clearer) /\ UNCHANGED <<cache, excused>>
    BY <1>4 DEF Update, Clears
  <2> DEFINE row == [product[p] EXCEPT !.status = s, !.edits = product[p].edits + edit]
  <2>3. product' = [product EXCEPT ![p] = row]
    BY <1>4 DEF Update
  <2>7. product[p] \in ProductRows /\ product[p].edits + edit \in Nat
    BY DEF TypeInv, TypeOK, CatalogTypeOK, ProductRows
  <2>6. row \in ProductRows /\ row.status = s /\ row.slug = product[p].slug
    BY <2>1, <2>7 DEF ProductRows
  <2>4. /\ product' \in [Products -> ProductRows]
        /\ \A o \in Products \ {p} : product'[o] = product[o]
        /\ product'[p].status = s /\ product'[p].slug = product[p].slug
    BY <2>3, <2>6 DEF TypeInv, TypeOK, CatalogTypeOK
  <2>5. s # "none"
    BY <2>1 DEF ProductStatuses
  <2> HIDE DEF clearer
  <2> QED BY <1>2, <2>2, <2>4, <2>5 DEF TypeInv, TypeOK, CatalogTypeOK
<1>5. ASSUME NEW ps \in SUBSET Products, NEW s \in Targets, BulkUpdateStatus(w, ps, s)
      PROVE  TypeInv'
  <2>1. s \in ProductStatuses
    BY CatalogAssumption
  <2>2. Become(w, clearer) /\ UNCHANGED <<cache, excused>>
    BY <1>5 DEF BulkUpdateStatus, Clears
  <2>3. product' = [p \in Products |->
                      IF p \in ps /\ Exists(p) THEN [product[p] EXCEPT !.status = s]
                                               ELSE product[p]]
    BY <1>5 DEF BulkUpdateStatus
  <2> HIDE DEF clearer
  <2> QED BY <1>2, <2>1, <2>2, <2>3 DEF TypeInv, TypeOK, CatalogTypeOK, ProductRows, ProductStatuses, Exists
<1> QED BY <1>1, <1>3, <1>4, <1>5 DEF CatalogCall

LEMMA CatalogContinueType ==
  ASSUME TypeInv, NEW w \in Workers, CatalogContinue(w), UNCHANGED <<find, quote, withdrawn>>
  PROVE  TypeInv'
<1>0. job[w] \in Jobs /\ JobOK(job[w])
  BY DEF TypeInv, TypeOK, CatalogTypeOK
<1>1. CASE ReadForCache(w)
  <2> DEFINE j == [Idle EXCEPT !.op = "store", !.list = Listed]
  <2>1. j \in Jobs /\ JobOK(j)
    BY ListedIsList DEF TypeInv, TypeOK, Idle, Jobs, Stages, JobOK
  <2>2. Become(w, j) /\ UNCHANGED <<product, cache, excused>>
    BY <1>1 DEF ReadForCache
  <2> HIDE DEF j
  <2> QED BY <2>1, <2>2, CarryType DEF TypeInv, TypeOK, CatalogTypeOK
<1>2. CASE StoreList(w)
  <2>1. Become(w, Idle) /\ UNCHANGED product
    BY <1>2 DEF StoreList, Finish
  <2>2. cache' \in Caches /\ excused' \in BOOLEAN
    BY <1>0, <1>2 DEF StoreList, Stored, Caches, Jobs
  <2> QED BY <2>1, <2>2, IdleIsJob, CarryType DEF TypeInv, TypeOK, CatalogTypeOK
<1>3. CASE InvalidateCatalogCache(w)
  <2> DEFINE j == [job[w] EXCEPT !.op = "quote"]
  <2>1. cache' \in Caches /\ excused' \in BOOLEAN /\ UNCHANGED product
    BY <1>3 DEF InvalidateCatalogCache, NoList, Caches, Lists
  <2>2. CASE job[w].find = None
    BY <1>3, <2>1, <2>2, IdleIsJob, CarryType
       DEF InvalidateCatalogCache, Finish, TypeInv, TypeOK, CatalogTypeOK
  <2>3. CASE job[w].find # None
    <3>1. j \in Jobs /\ JobOK(j)
      BY <1>0, <1>3, <2>3 DEF InvalidateCatalogCache, At, Jobs, Stages, JobOK
    <3>2. Become(w, j)
      BY <1>3, <2>3 DEF InvalidateCatalogCache
    <3> HIDE DEF j
    <3> QED BY <2>1, <3>1, <3>2, CarryType DEF TypeInv, TypeOK, CatalogTypeOK
  <2> QED BY <2>2, <2>3
<1> QED BY <1>1, <1>2, <1>3 DEF CatalogContinue

LEMMA ReviewType ==
  ASSUME TypeInv, NEW w \in Workers,
         \/ \E f \in Finds : ApproveProductFind(w, f) \/ RejectProductFind(w, f)
         \/ ChooseSlug(w) \/ PublishFind(w) \/ OfferFind(w) \/ DecideFind(w) \/ RejectFind(w)
  PROVE  TypeInv'
<1>0. job[w] \in Jobs /\ JobOK(job[w])
  BY DEF TypeInv, TypeOK, CatalogTypeOK
<1>1. ASSUME NEW f \in Finds, NEW op \in {"slug", "reject"},
             Become(w, [Idle EXCEPT !.op = op, !.find = f]),
             UNCHANGED <<product, cache, excused, find, quote, withdrawn>>
      PROVE  TypeInv'
  <2> DEFINE j == [Idle EXCEPT !.op = op, !.find = f]
  <2>1. j \in Jobs /\ JobOK(j)
    BY CatalogAssumption DEF Idle, Jobs, Stages, Lists, JobOK
  <2>2. Become(w, j)
    BY <1>1
  <2> HIDE DEF j
  <2> QED BY <1>1, <2>1, <2>2, CarryType DEF TypeInv, TypeOK, CatalogTypeOK
<1>2. ASSUME NEW f \in Finds, ApproveProductFind(w, f) \/ RejectProductFind(w, f)
      PROVE  TypeInv'
  BY <1>1, <1>2 DEF ApproveProductFind, RejectProductFind
<1>3. CASE ChooseSlug(w)
  <2> DEFINE s == IF SlugTaken(job[w].find) THEN None ELSE job[w].find
             j == [job[w] EXCEPT !.op = "publish", !.slug = s]
  <2>1. job[w].op = "slug"
    BY <1>3 DEF ChooseSlug, At
  <2>2. j \in Jobs /\ JobOK(j)
    BY <1>0, <2>1 DEF Jobs, Stages, JobOK
  <2>3. Become(w, j)
    BY <1>3 DEF ChooseSlug
  <2>4. UNCHANGED <<product, cache, excused, find, quote, withdrawn>>
    BY <1>3 DEF ChooseSlug
  <2> HIDE DEF j
  <2> QED BY <2>2, <2>3, <2>4, CarryType DEF TypeInv, TypeOK, CatalogTypeOK
<1>4. CASE PublishFind(w)
  <2>0. UNCHANGED <<cache, excused, find, quote, withdrawn>> /\ job[w].op = "publish"
    BY <1>4 DEF PublishFind, At
  <2>1. CASE Finish(w) /\ UNCHANGED product
    BY <2>0, <2>1, IdleIsJob, CarryType DEF Finish, TypeInv, TypeOK, CatalogTypeOK
  <2>2. ASSUME NEW p \in Products, ~Exists(p),
               job[w].slug = None \/ ~SlugTaken(job[w].slug),
               product' = [product EXCEPT ![p] =
                 [status |-> "published", edits |-> 0, slug |-> job[w].slug,
                  find |-> job[w].find]],
               Become(w, [job[w] EXCEPT !.op = "clear", !.prod = p])
        PROVE  TypeInv'
    <3> DEFINE j == [job[w] EXCEPT !.op = "clear", !.prod = p]
               row == [status |-> "published", edits |-> 0, slug |-> job[w].slug,
                       find |-> job[w].find]
    <3>1. j \in Jobs /\ JobOK(j)
      BY <1>0, <2>0, CatalogAssumption DEF Jobs, Stages, JobOK
    <3>2. Become(w, j)
      BY <2>2
    <3>3. row \in ProductRows /\ row.slug = job[w].slug /\ row.status # "none"
      BY <1>0 DEF ProductRows, ProductStatuses, Jobs
    <3>4. product' = [product EXCEPT ![p] = row]
      BY <2>2
    <3>5. \A o \in Products \ {p} : product[o].slug = job[w].slug => job[w].slug = None
      BY <2>2 DEF SlugTaken
    <3> HIDE DEF j, row
    <3>6. /\ product' \in [Products -> ProductRows] /\ product'[p] = row
          /\ \A o \in Products \ {p} : product'[o] = product[o]
      BY <3>3, <3>4 DEF TypeInv, TypeOK, CatalogTypeOK
    <3>7. \A o, q \in Products : product'[o].slug = product'[q].slug => o = q \/ product'[o].slug = None
      BY <3>3, <3>5, <3>6 DEF TypeInv, TypeOK, CatalogTypeOK
    <3>8. \A o \in Products : product'[o].status = "none" => product'[o] = NoProduct
      BY <3>3, <3>6 DEF TypeInv, TypeOK, CatalogTypeOK
    <3> QED BY <2>0, <3>1, <3>2, <3>6, <3>7, <3>8, CarryType DEF TypeInv, TypeOK, CatalogTypeOK
  <2> QED BY <1>4, <2>1, <2>2 DEF PublishFind
<1>5. CASE OfferFind(w)
  <2>1. PICK q \in Quotes : /\ quote' = [quote EXCEPT ![q] = job[w].find]
                            /\ Become(w, [job[w] EXCEPT !.op = "decide", !.quote = q])
    BY <1>5 DEF OfferFind
  <2> DEFINE j == [job[w] EXCEPT !.op = "decide", !.quote = q]
  <2>2. job[w].op = "quote" /\ UNCHANGED <<product, cache, excused, find, withdrawn>>
    BY <1>5 DEF OfferFind, At
  <2>3. j \in Jobs /\ JobOK(j)
    BY <1>0, <2>2, CatalogAssumption DEF Jobs, Stages, JobOK
  <2>4. Become(w, j)
    BY <2>1
  <2>5. quote' \in [Quotes -> Finds \cup {None}]
    BY <1>0, <2>1 DEF TypeInv, TypeOK, Jobs
  <2> HIDE DEF j
  <2> QED BY <2>2, <2>3, <2>4, <2>5, CarryType DEF TypeInv, TypeOK, CatalogTypeOK
<1>6. CASE DecideFind(w)
  <2>1. Become(w, Idle) /\ UNCHANGED <<product, cache, excused, quote, withdrawn>>
    BY <1>6 DEF DecideFind, Finish
  <2>2. SentRow(w) \in FindRows
    BY <1>0 DEF SentRow, FindRows, FindStatuses, Jobs
  <2>3. find' \in [Finds -> FindRows]
    BY <1>6, <2>2 DEF DecideFind, TypeInv, TypeOK
  <2> QED BY <2>1, <2>3, IdleIsJob, CarryType DEF TypeInv, TypeOK, CatalogTypeOK
<1>7. CASE RejectFind(w)
  <2>1. Become(w, Idle) /\ UNCHANGED <<product, cache, excused, quote, withdrawn>>
    BY <1>7 DEF RejectFind, Finish
  <2>2. find' \in [Finds -> FindRows]
    BY <1>7 DEF RejectFind, TypeInv, TypeOK, FindRows, FindStatuses
  <2> QED BY <2>1, <2>2, IdleIsJob, CarryType DEF TypeInv, TypeOK, CatalogTypeOK
<1> QED BY <1>2, <1>3, <1>4, <1>5, <1>6, <1>7

LEMMA TypeStep == TypeInv /\ [Next]_vars => TypeInv'
<1> SUFFICES ASSUME TypeInv, [Next]_vars PROVE TypeInv'
  OBVIOUS
<1>1. ASSUME NEW f \in Finds, NEW submit \in BOOLEAN, CreateProductFind(f, submit) PROVE TypeInv'
  BY <1>1 DEF CreateProductFind, TypeInv, TypeOK, CatalogTypeOK, FindRows, FindStatuses
<1>2. ASSUME NEW w \in Workers, Die(w), UNCHANGED <<find, quote, withdrawn>> PROVE TypeInv'
  BY <1>2, IdleIsJob, CarryType DEF Die, Finish, TypeInv, TypeOK, CatalogTypeOK
<1>3. CASE CacheExpires /\ UNCHANGED <<find, quote, withdrawn>>
  BY <1>3 DEF CacheExpires, NoList, Caches, Lists, TypeInv, TypeOK, CatalogTypeOK
<1>4. CASE UNCHANGED vars
  BY <1>4 DEF vars, TypeInv, TypeOK, CatalogTypeOK
<1>5. ASSUME NEW F \in SUBSET Finds, SubmitQuotes(F) PROVE TypeInv'
  BY <1>5 DEF SubmitQuotes, TypeInv, TypeOK, CatalogTypeOK
<1> QED
  BY <1>1, <1>2, <1>3, <1>4, <1>5, CatalogCallType, CatalogContinueType, ReviewType DEF Next, Call, Continue

(* Every table row, the cached list and the handlers keep their types, and *)
(* the slugs of products stay unique.                                      *)
THEOREM FindsTyped == Spec => []TypeOK
<1>1. TypeInv => TypeOK
  BY DEF TypeInv
<1> QED BY <1>1, InitType, TypeStep, PTL DEF Spec

-----------------------------------------------------------------------------
(* What a step of a handler does to the table and to the cached list.      *)

LEMMA OthersStay ==
  ASSUME TypeInv, NEW w \in Workers, Call(w) \/ Continue(w) \/ Die(w)
  PROVE  \A v \in Workers \ {w} : job'[v] = job[v]
<1>1. \E j : Become(w, j)
  <2>1. CASE Call(w)
    BY <2>1 DEF Call, CatalogCall, ListPublished, Create, Update, BulkUpdateStatus, Clears,
       ApproveProductFind, RejectProductFind
  <2>2. CASE Continue(w)
    BY <2>2 DEF Continue, CatalogContinue, ReadForCache, StoreList, InvalidateCatalogCache,
       ChooseSlug, PublishFind, OfferFind, DecideFind, RejectFind, Finish
  <2>3. CASE Die(w)
    BY <2>3 DEF Die, Finish
  <2> QED BY <2>1, <2>2, <2>3
<1> QED BY <1>1 DEF Become, TypeInv, TypeOK, CatalogTypeOK

(* A step that changes a product leaves its handler about to clear.        *)
LEMMA ChangesAreFollowedUp ==
  ASSUME TypeInv, NEW w \in Workers, Call(w) \/ Continue(w)
  PROVE  UNCHANGED product \/ (At(w, "clear")' /\ UNCHANGED <<cache, excused>>)
<1> USE DEF TypeInv, TypeOK, CatalogTypeOK
<1>1. ASSUME Clears(w) PROVE At(w, "clear")'
  BY <1>1 DEF Clears, Become, Idle, At
<1>2. CASE Call(w)
  BY <1>1, <1>2 DEF Call, CatalogCall, ListPublished, Create, Update, BulkUpdateStatus,
     ApproveProductFind, RejectProductFind
<1>3. CASE PublishFind(w)
  <2>1. UNCHANGED product \/ \E p \in Products : Become(w, [job[w] EXCEPT !.op = "clear", !.prod = p])
    BY <1>3 DEF PublishFind
  <2>2. ASSUME NEW p \in Products, Become(w, [job[w] EXCEPT !.op = "clear", !.prod = p])
        PROVE  At(w, "clear")'
    BY <2>2 DEF Become, At, Jobs
  <2> QED BY <1>3, <2>1, <2>2 DEF PublishFind
<1>4. CASE Continue(w) /\ ~PublishFind(w)
  BY <1>4 DEF Continue, CatalogContinue, ReadForCache, StoreList, InvalidateCatalogCache,
     ChooseSlug, OfferFind, DecideFind, RejectFind
<1> QED BY <1>2, <1>3, <1>4

LEMMA StaleInit == Init => StaleOnlyByRace
BY DEF Init, CatalogInit, NoList, StaleOnlyByRace, Stale

(* StaleOnlyByRace is inductive once typing is known: a list is stored     *)
(* with its excuse, a change has its clear pending, and the handler of the *)
(* pending clear goes away only with the list or with an excuse.           *)
LEMMA StaleStep == TypeInv /\ StaleOnlyByRace /\ [Next]_vars => StaleOnlyByRace'
<1> SUFFICES ASSUME TypeInv, StaleOnlyByRace, [Next]_vars, Stale', ~excused'
             PROVE  \E w \in Workers : At(w, "clear")'
  BY DEF StaleOnlyByRace
<1>1. ASSUME UNCHANGED <<product, cache, excused>>,
             NEW w \in Workers, ~At(w, "clear"), \A v \in Workers \ {w} : job'[v] = job[v]
      PROVE  \E v \in Workers : At(v, "clear")'
  BY <1>1 DEF StaleOnlyByRace, Stale, Listed, At
<1>2. ASSUME NEW w \in Workers, Call(w) \/ Continue(w)
      PROVE  \E v \in Workers : At(v, "clear")'
  <2>1. CASE product' # product
    BY <1>2, <2>1, ChangesAreFollowedUp
  <2>2. CASE product' = product /\ StoreList(w)
    BY <2>2 DEF StoreList, Stored, Stale, Listed
  <2>3. CASE product' = product /\ InvalidateCatalogCache(w)
    BY <2>3 DEF InvalidateCatalogCache, NoList, Stale
  <2>4. CASE product' = product /\ ~StoreList(w) /\ ~InvalidateCatalogCache(w)
    <3>1. UNCHANGED <<cache, excused>> /\ ~At(w, "clear")
      <4>1. CASE Call(w)
        <5>1. UNCHANGED <<cache, excused>> /\ Free(w)
          BY <4>1 DEF Call, CatalogCall, ListPublished, Create, Update, BulkUpdateStatus,
             ApproveProductFind, RejectProductFind
        <5> QED BY <5>1 DEF Free, At, Idle
      <4>2. CASE Continue(w)
        <5>1. \/ ReadForCache(w) \/ ChooseSlug(w) \/ PublishFind(w) \/ OfferFind(w)
              \/ DecideFind(w) \/ RejectFind(w)
          BY <2>4, <4>2 DEF Continue, CatalogContinue
        <5>2. UNCHANGED <<cache, excused>>
          BY <5>1 DEF ReadForCache, ChooseSlug, PublishFind, OfferFind, DecideFind, RejectFind
        <5>3. ~At(w, "clear")
          BY <5>1 DEF ReadForCache, ChooseSlug, PublishFind, OfferFind, DecideFind, RejectFind, At
        <5> QED BY <5>2, <5>3
      <4> QED BY <1>2, <4>1, <4>2
    <3> QED BY <1>1, <1>2, <2>4, <3>1, OthersStay
  <2> QED BY <2>1, <2>2, <2>3, <2>4
<1>3. ASSUME NEW w \in Workers, Die(w) PROVE \E v \in Workers : At(v, "clear")'
  <2>1. UNCHANGED <<product, cache, excused>> /\ ~At(w, "clear")
    BY <1>3 DEF Die, TypeInv, TypeOK, CatalogTypeOK
  <2> QED BY <1>1, <1>3, <2>1, OthersStay
<1>4. ASSUME UNCHANGED <<product, cache, excused, job>> PROVE \E v \in Workers : At(v, "clear")'
  BY <1>4 DEF StaleOnlyByRace, Stale, Listed, At
<1>5. ~CacheExpires
  BY DEF CacheExpires, NoList, Stale
<1>6. ASSUME NEW f \in Finds, NEW submit \in BOOLEAN, CreateProductFind(f, submit)
      PROVE  \E v \in Workers : At(v, "clear")'
  BY <1>4, <1>6 DEF CreateProductFind
<1>7. CASE UNCHANGED vars
  BY <1>4, <1>7 DEF vars
<1>8. ASSUME NEW F \in SUBSET Finds, SubmitQuotes(F) PROVE \E v \in Workers : At(v, "clear")'
  BY <1>4, <1>8 DEF SubmitQuotes
<1> QED BY <1>2, <1>3, <1>5, <1>6, <1>7, <1>8 DEF Next

(* Whoever changes a product does not end with the old list in place,      *)
(* unless a fill raced the change or the process died before clearing.     *)
THEOREM StaleListsAreExcused == Spec => []StaleOnlyByRace
<1>1. Spec => [](TypeInv /\ StaleOnlyByRace)
  BY InitType, TypeStep, StaleInit, StaleStep, PTL DEF Spec
<1> QED BY <1>1, PTL

-----------------------------------------------------------------------------
(* Where products, quotes and finds come from.                             *)

Submitted(f) == find[f].status \in {"pending_review", "sent", "rejected"}

OriginInv ==
  /\ \A p \in Products : product[p].find # None => Submitted(product[p].find)
  /\ \A q \in Quotes : quote[q] # None => Submitted(quote[q])
  /\ \A w \in Workers :
       /\ job[w].find # None => Submitted(job[w].find)
       /\ job[w].prod # None => product[job[w].prod].find = job[w].find /\ job[w].find # None
       /\ job[w].quote # None => quote[job[w].quote] = job[w].find /\ job[w].find # None
  /\ SentFindsNameTheirOwn

LEMMA OriginInit == Init => OriginInv
BY DEF Init, CatalogInit, OriginInv, SentFindsNameTheirOwn, NoProduct, NoFind, Idle

(* Nothing a product or a quote was made for is taken back, and what is    *)
(* new was made by the handler that takes the step.                        *)
LEMMA MadeGrows ==
  ASSUME TypeInv, [Next]_vars
  PROVE  /\ \A p \in Products : product[p].find # None => product'[p].find = product[p].find
         /\ \A q \in Quotes : quote[q] # None => quote'[q] = quote[q]
         /\ \A p \in Products : product'[p].find # product[p].find =>
              \E w \in Workers : PublishFind(w) /\ product'[p].find = job[w].find
         /\ \A q \in Quotes : quote'[q] # quote[q] =>
              \E w \in Workers : OfferFind(w) /\ quote'[q] = job[w].find
<1> USE DEF TypeInv, TypeOK, CatalogTypeOK
<1> DEFINE Goal ==
      /\ \A p \in Products : product[p].find # None => product'[p].find = product[p].find
      /\ \A q \in Quotes : quote[q] # None => quote'[q] = quote[q]
      /\ \A p \in Products : product'[p].find # product[p].find =>
           \E w \in Workers : PublishFind(w) /\ product'[p].find = job[w].find
      /\ \A q \in Quotes : quote'[q] # quote[q] =>
           \E w \in Workers : OfferFind(w) /\ quote'[q] = job[w].find
<1>1. ASSUME \A p \in Products : product'[p].find = product[p].find, UNCHANGED quote PROVE Goal
  BY <1>1
<1>2. ASSUME NEW w \in Workers, NEW p \in Products, NEW s \in Targets, Create(w, p, s), UNCHANGED quote
      PROVE  Goal
  <2>1. product[p] = NoProduct
    BY <1>2 DEF Create, Exists
  <2>2. product' = [product EXCEPT ![p] = [NoProduct EXCEPT !.status = s]]
    BY <1>2 DEF Create
  <2>3. [NoProduct EXCEPT !.status = s].find = NoProduct.find
    BY DEF NoProduct
  <2> HIDE DEF Goal
  <2> QED BY <1>1, <1>2, <2>1, <2>2, <2>3
<1>3. ASSUME NEW w \in Workers, NEW p \in Products, NEW s \in Targets, NEW edit \in 0..1,
             Update(w, p, s, edit), UNCHANGED quote
      PROVE  Goal
  <2> DEFINE row == [product[p] EXCEPT !.status = s, !.edits = product[p].edits + edit]
  <2>1. product' = [product EXCEPT ![p] = row]
    BY <1>3 DEF Update
  <2>2. product[p] \in ProductRows
    OBVIOUS
  <2>3. row.find = product[p].find
    BY <2>2 DEF ProductRows
  <2> HIDE DEF Goal, row
  <2> QED BY <1>1, <1>3, <2>1, <2>3
<1>4. ASSUME NEW w \in Workers, NEW ps \in SUBSET Products, NEW s \in Targets,
             BulkUpdateStatus(w, ps, s), UNCHANGED quote
      PROVE  Goal
  <2>1. \A p \in Products : product'[p].find = product[p].find
    BY <1>4 DEF BulkUpdateStatus, ProductRows
  <2> HIDE DEF Goal
  <2> QED BY <1>1, <1>4, <2>1
<1>5. ASSUME NEW w \in Workers, PublishFind(w) PROVE Goal
  <2>1. UNCHANGED quote
    BY <1>5 DEF PublishFind
  <2>2. UNCHANGED product \/ \E p \in Products :
          /\ ~Exists(p)
          /\ product' = [product EXCEPT ![p] = [status |-> "published", edits |-> 0,
                                                slug |-> job[w].slug, find |-> job[w].find]]
    BY <1>5 DEF PublishFind
  <2>3. ASSUME NEW p \in Products, ~Exists(p),
               product' = [product EXCEPT ![p] = [status |-> "published", edits |-> 0,
                                                  slug |-> job[w].slug, find |-> job[w].find]]
        PROVE  Goal
    <3>1. product[p].find = None
      BY <2>3 DEF Exists, NoProduct
    <3>2. product'[p].find = job[w].find /\ \A o \in Products \ {p} : product'[o] = product[o]
      BY <2>3
    <3> QED BY <1>5, <2>1, <3>1, <3>2
  <2> QED BY <2>1, <2>2, <2>3
<1>6. ASSUME NEW w \in Workers, OfferFind(w) PROVE Goal
  BY <1>6 DEF OfferFind
<1>7. ASSUME NEW w \in Workers, CatalogContinue(w) \/ Die(w), UNCHANGED quote PROVE Goal
  BY <1>7 DEF CatalogContinue, ReadForCache, StoreList, InvalidateCatalogCache, Die
<1>8. ASSUME NEW w \in Workers,
             \/ ListPublished(w) /\ UNCHANGED quote
             \/ \E f \in Finds : ApproveProductFind(w, f) \/ RejectProductFind(w, f)
             \/ ChooseSlug(w) \/ DecideFind(w) \/ RejectFind(w)
      PROVE  Goal
  BY <1>8 DEF ListPublished, ApproveProductFind, RejectProductFind, ChooseSlug, DecideFind, RejectFind
<1>9. ASSUME \/ \E f \in Finds, submit \in BOOLEAN : CreateProductFind(f, submit)
             \/ \E F \in SUBSET Finds : SubmitQuotes(F)
             \/ CacheExpires /\ UNCHANGED <<find, quote, withdrawn>>
             \/ UNCHANGED vars
      PROVE  Goal
  BY <1>9 DEF CreateProductFind, SubmitQuotes, CacheExpires, vars
<1> HIDE DEF Goal
<1>10. Goal
  BY <1>2, <1>3, <1>4, <1>5, <1>6, <1>7, <1>8, <1>9 DEF Next, Call, Continue, CatalogCall
<1> QED BY <1>10 DEF Goal

\* A find that was submitted stays so, and only a handler that carries it
\* changes its row.
LEMMA FindsMove ==
  ASSUME TypeInv, OriginInv, [Next]_vars, NEW f \in Finds
  PROVE  /\ Submitted(f) => Submitted(f)'
         /\ find'[f] = find[f] \/ find[f] = NoFind
            \/ \E w \in Workers : job[w].find = f /\ (DecideFind(w) \/ RejectFind(w))
<1> USE DEF TypeInv, TypeOK, CatalogTypeOK
<1>1. CASE find'[f] = find[f]
  BY <1>1 DEF Submitted
<1>2. ASSUME NEW g \in Finds, NEW submit \in BOOLEAN, CreateProductFind(g, submit)
      PROVE  find'[f] = find[f] \/ (find[f] = NoFind /\ ~Submitted(f))
  BY <1>2 DEF CreateProductFind, Submitted, NoFind
<1>3. ASSUME NEW w \in Workers, DecideFind(w)
      PROVE  find'[f] = find[f] \/ (job[w].find = f /\ Submitted(f)')
  BY <1>3 DEF DecideFind, SentRow, Submitted, Jobs
<1>4. ASSUME NEW w \in Workers, RejectFind(w)
      PROVE  find'[f] = find[f] \/ (job[w].find = f /\ Submitted(f)')
  BY <1>4 DEF RejectFind, Submitted, Jobs, FindRows
<1>5. ASSUME NEW w \in Workers, ~DecideFind(w), ~RejectFind(w),
             Call(w) \/ Continue(w) \/ (Die(w) /\ UNCHANGED <<find, quote, withdrawn>>)
      PROVE  find' = find
  BY <1>5 DEF Call, Continue, ApproveProductFind, RejectProductFind, ChooseSlug, PublishFind, OfferFind
<1>6. ASSUME \/ CacheExpires /\ UNCHANGED <<find, quote, withdrawn>>
             \/ \E F \in SUBSET Finds : SubmitQuotes(F)
             \/ UNCHANGED vars
      PROVE  find' = find
  BY <1>6 DEF SubmitQuotes, vars
<1> QED BY <1>1, <1>2, <1>3, <1>4, <1>5, <1>6 DEF Next

\* What a handler carries belongs to its find.
Belongs(j) ==
  /\ j.find # None => Submitted(j.find)
  /\ j.prod # None => product[j.prod].find = j.find /\ j.find # None
  /\ j.quote # None => quote[j.quote] = j.find /\ j.find # None

LEMMA BelongingStays ==
  ASSUME TypeInv, OriginInv, [Next]_vars, NEW w \in Workers, job'[w] = job[w]
  PROVE  Belongs(job[w])'
<1>1. job[w] \in Jobs
  BY DEF TypeInv, TypeOK, CatalogTypeOK
<1>2. Belongs(job[w])
  BY DEF OriginInv, Belongs
<1>3. job[w].find # None => Submitted(job[w].find)'
  BY <1>1, <1>2, FindsMove DEF Belongs, Jobs
<1>4. job[w].prod # None => product'[job[w].prod].find = job[w].find
  BY <1>1, <1>2, MadeGrows DEF Belongs, Jobs
<1>5. job[w].quote # None => quote'[job[w].quote] = job[w].find
  BY <1>1, <1>2, MadeGrows DEF Belongs, Jobs
<1> QED BY <1>2, <1>3, <1>4, <1>5 DEF Belongs

\* The same for a handler that goes on with a record that carries as much.
LEMMA BelongingCarries ==
  ASSUME TypeInv, OriginInv, [Next]_vars, NEW w \in Workers, NEW j, job'[w] = j,
         j.find = job[w].find, j.prod = job[w].prod, j.quote = job[w].quote
  PROVE  Belongs(job[w])'
<1>1. job[w] \in Jobs
  BY DEF TypeInv, TypeOK, CatalogTypeOK
<1>2. Belongs(job[w])
  BY DEF OriginInv, Belongs
<1>3. job[w].find # None => Submitted(job[w].find)'
  BY <1>1, <1>2, FindsMove DEF Belongs, Jobs
<1>4. job[w].prod # None => product'[job[w].prod].find = job[w].find
  BY <1>1, <1>2, MadeGrows DEF Belongs, Jobs
<1>5. job[w].quote # None => quote'[job[w].quote] = job[w].find
  BY <1>1, <1>2, MadeGrows DEF Belongs, Jobs
<1> QED BY <1>2, <1>3, <1>4, <1>5 DEF Belongs

LEMMA StepBelongs ==
  ASSUME TypeInv, OriginInv, [Next]_vars, NEW w \in Workers, Call(w) \/ Continue(w) \/ Die(w)
  PROVE  Belongs(job[w])'
<1> USE DEF TypeInv, TypeOK, CatalogTypeOK
<1>0. job[w] \in Jobs /\ Belongs(job[w])
  BY DEF OriginInv, Belongs
<1>1. ASSUME NEW j, Become(w, j), j.find = None, j.prod = None, j.quote = None
      PROVE  Belongs(job[w])'
  <2>1. job'[w] = j
    BY <1>1 DEF Become
  <2> QED BY <1>1, <2>1 DEF Belongs
<1>2. ASSUME NEW j, Become(w, j),
             j.find = job[w].find, j.prod = job[w].prod, j.quote = job[w].quote
      PROVE  Belongs(job[w])'
  <2>1. job'[w] = j
    BY <1>2 DEF Become
  <2> QED BY <1>2, <2>1, BelongingCarries
<1>3. ASSUME NEW f \in Finds, ApproveProductFind(w, f) \/ RejectProductFind(w, f)
      PROVE  Belongs(job[w])'
  <2>1. Submitted(f)'
    BY <1>3 DEF ApproveProductFind, RejectProductFind, Pending, Submitted
  <2>2. PICK op \in {"slug", "reject"} : Become(w, [Idle EXCEPT !.op = op, !.find = f])
    BY <1>3 DEF ApproveProductFind, RejectProductFind
  <2>3. job'[w].find = f /\ job'[w].prod = None /\ job'[w].quote = None
    BY <2>2 DEF Become, Idle
  <2> QED BY <2>1, <2>3 DEF Belongs
<1>4. CASE CatalogCall(w)
  <2>1. PICK op \in {"read", "clear"} : Become(w, [Idle EXCEPT !.op = op])
    BY <1>4 DEF CatalogCall, ListPublished, Create, Update, BulkUpdateStatus, Clears
  <2> QED BY <1>1, <2>1 DEF Idle
<1>5. CASE ReadForCache(w) \/ StoreList(w) \/ DecideFind(w) \/ RejectFind(w) \/ Die(w)
  <2>1. Become(w, Idle) \/ Become(w, [Idle EXCEPT !.op = "store", !.list = Listed])
    BY <1>5 DEF ReadForCache, StoreList, DecideFind, RejectFind, Die, Finish
  <2> QED BY <1>1, <2>1 DEF Idle
<1>6. CASE InvalidateCatalogCache(w)
  <2>1. Become(w, Idle) \/ Become(w, [job[w] EXCEPT !.op = "quote"])
    BY <1>6 DEF InvalidateCatalogCache, Finish
  <2>2. CASE Become(w, Idle)
    BY <1>1, <2>2 DEF Idle
  <2>3. CASE Become(w, [job[w] EXCEPT !.op = "quote"])
    BY <1>0, <1>2, <2>3 DEF Jobs
  <2> QED BY <2>1, <2>2, <2>3
<1>7. CASE ChooseSlug(w)
  <2>1. PICK s : Become(w, [job[w] EXCEPT !.op = "publish", !.slug = s])
    BY <1>7 DEF ChooseSlug
  <2> QED BY <1>0, <1>2, <2>1 DEF Jobs
<1>8. CASE PublishFind(w)
  <2>1. CASE Finish(w)
    BY <1>1, <2>1 DEF Finish, Idle
  <2>2. ASSUME NEW p \in Products,
               product' = [product EXCEPT ![p] =
                 [status |-> "published", edits |-> 0, slug |-> job[w].slug,
                  find |-> job[w].find]],
               Become(w, [job[w] EXCEPT !.op = "clear", !.prod = p])
        PROVE  Belongs(job[w])'
    <3>1. UNCHANGED <<find, quote, withdrawn>> /\ job[w].find # None
      BY <1>8 DEF PublishFind, At, JobOK
    <3>2. job'[w].find = job[w].find /\ job'[w].prod = p /\ job'[w].quote = job[w].quote
      BY <1>0, <2>2 DEF Become, Jobs
    <3>3. product'[p].find = job[w].find
      BY <2>2
    <3> QED BY <1>0, <3>1, <3>2, <3>3 DEF Belongs, Submitted
  <2> QED BY <1>8, <2>1, <2>2 DEF PublishFind
<1>9. CASE OfferFind(w)
  <2>1. PICK q \in Quotes : /\ quote' = [quote EXCEPT ![q] = job[w].find]
                            /\ Become(w, [job[w] EXCEPT !.op = "decide", !.quote = q])
    BY <1>9 DEF OfferFind
  <2>2. UNCHANGED <<find, product>> /\ job[w].find # None
    BY <1>9 DEF OfferFind, At, JobOK
  <2>3. job'[w].find = job[w].find /\ job'[w].prod = job[w].prod /\ job'[w].quote = q
    BY <1>0, <2>1 DEF Become, Jobs
  <2>4. quote'[q] = job[w].find
    BY <2>1
  <2> QED BY <1>0, <2>2, <2>3, <2>4 DEF Belongs, Submitted
<1> QED
  BY <1>3, <1>4, <1>5, <1>6, <1>7, <1>8, <1>9 DEF Call, Continue, CatalogContinue

LEMMA OriginStep == TypeInv /\ OriginInv /\ [Next]_vars => OriginInv'
<1> SUFFICES ASSUME TypeInv, OriginInv, [Next]_vars PROVE OriginInv'
  OBVIOUS
<1>1. ASSUME NEW p \in Products, product'[p].find # None PROVE Submitted(product[p].find)'
  <2>1. CASE product'[p].find = product[p].find
    <3>1. product[p].find \in Finds /\ Submitted(product[p].find)
      BY <1>1, <2>1 DEF OriginInv, TypeInv, TypeOK, CatalogTypeOK, ProductRows
    <3> QED BY <2>1, <3>1, FindsMove
  <2>2. ASSUME NEW w \in Workers, product'[p].find = job[w].find
        PROVE  Submitted(product[p].find)'
    <3>1. job[w].find \in Finds /\ Submitted(job[w].find)
      BY <1>1, <2>2 DEF OriginInv, TypeInv, TypeOK, CatalogTypeOK, Jobs
    <3> QED BY <2>2, <3>1, FindsMove
  <2> QED BY <2>1, <2>2, MadeGrows
<1>2. ASSUME NEW q \in Quotes, quote'[q] # None PROVE Submitted(quote[q])'
  <2>1. CASE quote'[q] = quote[q]
    <3>1. quote[q] \in Finds /\ Submitted(quote[q])
      BY <1>2, <2>1 DEF OriginInv, TypeInv, TypeOK
    <3> QED BY <2>1, <3>1, FindsMove
  <2>2. ASSUME NEW w \in Workers, quote'[q] = job[w].find PROVE Submitted(quote[q])'
    <3>1. job[w].find \in Finds /\ Submitted(job[w].find)
      BY <1>2, <2>2 DEF OriginInv, TypeInv, TypeOK, CatalogTypeOK, Jobs
    <3> QED BY <2>2, <3>1, FindsMove
  <2> QED BY <2>1, <2>2, MadeGrows
<1>3. ASSUME NEW v \in Workers PROVE Belongs(job[v])'
  <2>1. CASE job'[v] = job[v]
    BY <2>1, BelongingStays
  <2>2. CASE job'[v] # job[v]
    <3>1. PICK w \in Workers : Call(w) \/ Continue(w) \/ Die(w)
      BY <2>2 DEF Next, CreateProductFind, SubmitQuotes, CacheExpires, vars
    <3>2. v = w
      BY <2>2, <3>1, OthersStay
    <3> QED BY <3>1, <3>2, StepBelongs
  <2> QED BY <2>1, <2>2
<1>4. ASSUME NEW f \in Finds
      PROVE  LET r == find'[f] IN
             /\ r.status = "sent" => r.prod # None
             /\ (r.prod = None) <=> (r.quote = None)
             /\ r.prod # None => product'[r.prod].find = f /\ quote'[r.quote] = f
  <2>0. find[f] \in FindRows /\ f # None
    BY CatalogAssumption DEF TypeInv, TypeOK
  <2>1. /\ find[f].prod # None => product'[find[f].prod].find = f /\ quote'[find[f].quote] = f
        /\ (find[f].prod = None) <=> (find[f].quote = None)
    BY <2>0, MadeGrows DEF OriginInv, SentFindsNameTheirOwn, FindRows
  <2>2. CASE find'[f] = find[f]
    BY <2>1, <2>2 DEF OriginInv, SentFindsNameTheirOwn
  <2>3. CASE find'[f].status \in {"draft", "pending_review", "rejected"}
             /\ find'[f].prod = find[f].prod /\ find'[f].quote = find[f].quote
    BY <2>1, <2>3
  <2>4. ASSUME NEW w \in Workers, DecideFind(w), job[w].find = f,
               find'[f] = SentRow(w)
        PROVE  LET r == find'[f] IN
               /\ r.prod # None /\ r.quote # None
               /\ product'[r.prod].find = f /\ quote'[r.quote] = f
    <3>1. job[w].prod # None /\ job[w].quote # None
      BY <2>4 DEF DecideFind, At, TypeInv, JobOK
    <3>2. product[job[w].prod].find = f /\ quote[job[w].quote] = f
      BY <2>4, <3>1 DEF OriginInv
    <3>3. UNCHANGED <<product, quote>>
      BY <2>4 DEF DecideFind
    <3> QED BY <2>4, <3>1, <3>2, <3>3 DEF SentRow
  <2>5. ASSUME NEW w \in Workers, RejectFind(w)
        PROVE  \/ find'[f] = find[f]
               \/ /\ find'[f].status = "rejected"
                  /\ find'[f].prod = find[f].prod /\ find'[f].quote = find[f].quote
    BY <2>0, <2>5 DEF RejectFind, FindRows, TypeInv, TypeOK
  <2>6. ASSUME NEW w \in Workers, DecideFind(w)
        PROVE  find'[f] = find[f] \/ (job[w].find = f /\ find'[f] = SentRow(w))
    BY <2>6 DEF DecideFind, TypeInv, TypeOK
  <2>7. ASSUME NEW g \in Finds, NEW submit \in BOOLEAN, CreateProductFind(g, submit)
        PROVE  \/ find'[f] = find[f]
               \/ /\ find'[f].status \in {"draft", "pending_review"}
                  /\ find'[f].prod = find[f].prod /\ find'[f].quote = find[f].quote
    BY <2>0, <2>7 DEF CreateProductFind, FindRows, TypeInv, TypeOK
  <2>8. \/ find'[f] = find[f]
        \/ \E g \in Finds, submit \in BOOLEAN : CreateProductFind(g, submit)
        \/ \E w \in Workers : DecideFind(w) \/ RejectFind(w)
    BY DEF Next, Call, Continue, ApproveProductFind, RejectProductFind, ChooseSlug, PublishFind,
       OfferFind, SubmitQuotes, vars
  <2> QED BY <2>2, <2>3, <2>4, <2>5, <2>6, <2>7, <2>8
<1>5. TypeInv'
  BY TypeStep
<1>6. \A p \in Products : product'[p].find # None => Exists(p)'
  BY <1>5, CatalogAssumption DEF TypeInv, TypeOK, CatalogTypeOK, NoProduct, Exists
<1>7. \A f \in Finds : find'[f].prod # None => find'[f].prod \in Products /\ f # None
  BY <1>5, CatalogAssumption DEF TypeInv, TypeOK, FindRows
<1> QED BY <1>1, <1>2, <1>3, <1>4, <1>6, <1>7 DEF OriginInv, Belongs, SentFindsNameTheirOwn

(* A sent find names a product that is there and was made from it, and a   *)
(* quote that was made for it, however many approvals and rejections of it *)
(* raced, and although submitQuotes deletes quotes that finds name.        *)
THEOREM SentFindsKeepTheirOwn == Spec => []SentFindsNameTheirOwn
<1>1. Spec => [](TypeInv /\ OriginInv)
  BY InitType, TypeStep, OriginInit, OriginStep, PTL DEF Spec
<1>2. OriginInv => SentFindsNameTheirOwn
  BY DEF OriginInv
<1> QED BY <1>1, <1>2, PTL

(* Nothing reaches the store or a quote from a find that was never         *)
(* submitted for review.                                                   *)
THEOREM ReviewComesFirst == Spec => []ReviewedFirst
<1>1. Spec => [](TypeInv /\ OriginInv)
  BY InitType, TypeStep, OriginInit, OriginStep, PTL DEF Spec
<1>2. TypeInv /\ OriginInv => ReviewedFirst
  BY CatalogAssumption DEF OriginInv, ReviewedFirst, Made, Submitted
<1> QED BY <1>1, <1>2, PTL

\* Only what is pending comes under review.
LEMMA ReviewsStartPending ==
  ASSUME TypeInv, [Next]_vars, NEW f \in Finds, NEW v \in Workers,
         job'[v].find = f, job[v].find # f
  PROVE  Pending(f)
<1> USE DEF TypeInv, TypeOK, CatalogTypeOK
<1>0. f # None /\ job[v] \in Jobs /\ job'[v] # job[v]
  BY CatalogAssumption
<1>1. PICK w \in Workers : Call(w) \/ Continue(w) \/ Die(w)
  BY <1>0 DEF Next, CreateProductFind, SubmitQuotes, CacheExpires, vars
<1>2. v = w
  BY <1>0, <1>1, OthersStay
<1>3. \/ \E g \in Finds : Pending(g) /\ job'[v].find = g
      \/ job'[v].find = None
      \/ job'[v].find = job[v].find
  <2>1. CASE CatalogCall(v)
    BY <2>1 DEF CatalogCall, ListPublished, Create, Update, BulkUpdateStatus, Clears, Become, Idle
  <2>2. ASSUME NEW g \in Finds, ApproveProductFind(v, g) \/ RejectProductFind(v, g)
        PROVE  Pending(g) /\ job'[v].find = g
    BY <2>2 DEF ApproveProductFind, RejectProductFind, Become, Idle
  <2>3. CASE ReadForCache(v) \/ StoreList(v) \/ DecideFind(v) \/ RejectFind(v) \/ Die(v)
    <3>1. Become(v, Idle) \/ Become(v, [Idle EXCEPT !.op = "store", !.list = Listed])
      BY <2>3 DEF ReadForCache, StoreList, DecideFind, RejectFind, Die, Finish
    <3>2. ASSUME NEW j, Become(v, j), j.find = None PROVE job'[v].find = None
      BY <3>2 DEF Become
    <3> QED BY <3>1, <3>2 DEF Idle
  <2>4. CASE InvalidateCatalogCache(v)
    <3>1. Become(v, Idle) \/ Become(v, [job[v] EXCEPT !.op = "quote"])
      BY <2>4 DEF InvalidateCatalogCache, Finish
    <3> QED BY <1>0, <3>1 DEF Become, Idle, Jobs
  <2>5. CASE ChooseSlug(v)
    <3>1. PICK s : Become(v, [job[v] EXCEPT !.op = "publish", !.slug = s])
      BY <2>5 DEF ChooseSlug
    <3> QED BY <1>0, <3>1 DEF Become, Jobs
  <2>6. CASE PublishFind(v)
    <3>1. CASE Become(v, Idle)
      BY <3>1 DEF Become, Idle
    <3>2. ASSUME NEW p \in Products, Become(v, [job[v] EXCEPT !.op = "clear", !.prod = p])
          PROVE  job'[v].find = job[v].find
      BY <1>0, <3>2 DEF Become, Jobs
    <3> QED BY <2>6, <3>1, <3>2 DEF PublishFind, Finish
  <2>7. CASE OfferFind(v)
    <3>1. PICK q \in Quotes : Become(v, [job[v] EXCEPT !.op = "decide", !.quote = q])
      BY <2>7 DEF OfferFind
    <3> QED BY <1>0, <3>1 DEF Become, Jobs
  <2> QED
    BY <1>1, <1>2, <2>1, <2>2, <2>3, <2>4, <2>5, <2>6, <2>7 DEF Call, Continue, CatalogContinue
<1> QED BY <1>0, <1>3

(* A decided find that nobody is reviewing stays decided: it is not        *)
(* reviewed, published or offered again.                                   *)
THEOREM DecisionsStand == Spec => DecisionStands
<1>1. Spec => [](TypeInv /\ OriginInv)
  BY InitType, TypeStep, OriginInit, OriginStep, PTL DEF Spec
<1>2. ASSUME TypeInv, OriginInv, [Next]_vars, NEW f \in Finds, Closed(f)
      PROVE  Closed(f)' /\ find'[f] = find[f] /\ Made(f)' = Made(f)
  <2>1. find'[f] = find[f]
    BY <1>2, FindsMove DEF Closed, NoFind
  <2>2. f # None
    BY CatalogAssumption
  <2>3. \A p \in Products : product'[p].find = f <=> product[p].find = f
    BY <1>2, <2>2, MadeGrows DEF Closed
  <2>4. \A q \in Quotes : quote'[q] = f <=> quote[q] = f
    BY <1>2, <2>2, MadeGrows DEF Closed
  <2>5. \A w \in Workers : job'[w].find # f
    BY <1>2, ReviewsStartPending DEF Closed, Pending
  <2> QED BY <1>2, <2>1, <2>3, <2>4, <2>5 DEF Closed, Made
<1>3. TypeInv /\ OriginInv /\ [Next]_vars =>
        [\A f \in Finds :
           Closed(f) => Closed(f)' /\ find'[f] = find[f] /\ Made(f)' = Made(f)]_vars
  BY <1>2
<1> QED BY <1>1, <1>3, PTL DEF Spec, DecisionStands
=============================================================================
