-------------------------- MODULE BackOfficeProofs --------------------------
(***************************************************************************)
(* Theorems about Uploads, Pricing, OpsAccess and MailQueue, for any       *)
(* numbers of handlers, files, wares, settings, staff and mails, and about *)
(* the four side by side (MCBackOffice).                                   *)
(***************************************************************************)
EXTENDS MCBackOffice, FiniteSetTheorems, TLAPS

-----------------------------------------------------------------------------
(* Uploads.  Handlers that passed the check are Busy; of those, Counting   *)
(* ones stored a file that the counter does not show yet.                  *)

BusyIn(up, desk)     == {u \in Uploaders : up[u].stage # "idle" /\ up[u].desk = desk}
CountingIn(up, desk) == {u \in Uploaders : up[u].stage = "count" /\ up[u].desk = desk}

(* Every stored file is counted, about to be, or never will be; and the    *)
(* check leaves room for what is busy beside it.                           *)
AllowanceInv(desk) ==
  /\ stored[desk] <= counter[desk] + uncounted[desk] + Cardinality(CountingIn(upload, desk))
  /\ Cap(desk) > 0 =>
       counter[desk] + Cardinality(BusyIn(upload, desk)) + 1 <= Cap(desk) + Cardinality(Uploaders)

UploadInv == UploadTypeOK /\ \A desk \in Desks : AllowanceInv(desk)

LEMMA CapType == \A desk \in Desks : Cap(desk) \in Nat
BY UploadAssumption DEF Cap

LEMMA BusyIsFinite ==
  ASSUME NEW desk
  PROVE  /\ IsFiniteSet(Uploaders) /\ Cardinality(Uploaders) \in Nat
         /\ IsFiniteSet(BusyIn(upload, desk)) /\ Cardinality(BusyIn(upload, desk)) \in Nat
         /\ IsFiniteSet(CountingIn(upload, desk)) /\ Cardinality(CountingIn(upload, desk)) \in Nat
         /\ Cardinality(CountingIn(upload, desk)) <= Cardinality(BusyIn(upload, desk))
         /\ Cardinality(BusyIn(upload, desk)) <= Cardinality(Uploaders)
<1>1. IsFiniteSet(Uploaders)
  BY UploadAssumption
<1>2. BusyIn(upload, desk) \in SUBSET Uploaders /\ CountingIn(upload, desk) \in SUBSET BusyIn(upload, desk)
  BY DEF BusyIn, CountingIn
<1>3. IsFiniteSet(BusyIn(upload, desk)) /\ Cardinality(BusyIn(upload, desk)) <= Cardinality(Uploaders)
  BY <1>1, <1>2, FS_Subset
<1>4. IsFiniteSet(CountingIn(upload, desk)) /\ Cardinality(CountingIn(upload, desk)) <= Cardinality(BusyIn(upload, desk))
  BY <1>2, <1>3, FS_Subset
<1> QED BY <1>1, <1>3, <1>4, FS_CardinalityType

LEMMA UploadInitInv == UploadInit => UploadInv
<1> SUFFICES ASSUME UploadInit PROVE UploadInv
  OBVIOUS
<1>1. UploadTypeOK
  BY DEF UploadInit, UploadTypeOK, NoUpload, Uploading, Desks
<1>2. ASSUME NEW desk \in Desks PROVE AllowanceInv(desk)
  <2>1. BusyIn(upload, desk) = {} /\ CountingIn(upload, desk) = {}
    BY DEF UploadInit, BusyIn, CountingIn, NoUpload
  <2>2. Cardinality(BusyIn(upload, desk)) = 0 /\ Cardinality(CountingIn(upload, desk)) = 0
    BY <2>1, FS_EmptySet
  <2> QED BY <2>2, CapType, BusyIsFinite DEF UploadInit, AllowanceInv
<1> QED BY <1>1, <1>2 DEF UploadInv

(* What becomes of the two sets when only handler u moves on.              *)
LEMMA SetsMove ==
  ASSUME NEW f, NEW g, NEW u \in Uploaders, \A v \in Uploaders : v # u => g[v] = f[v], NEW k
  PROVE  /\ (u \in BusyIn(g, k) <=> u \in BusyIn(f, k)) => BusyIn(g, k) = BusyIn(f, k)
         /\ u \notin BusyIn(g, k) => BusyIn(g, k) = BusyIn(f, k) \ {u}
         /\ (u \in CountingIn(g, k) <=> u \in CountingIn(f, k)) => CountingIn(g, k) = CountingIn(f, k)
         /\ u \in CountingIn(g, k) => CountingIn(g, k) = CountingIn(f, k) \cup {u}
         /\ u \notin CountingIn(g, k) => CountingIn(g, k) = CountingIn(f, k) \ {u}
BY DEF BusyIn, CountingIn

(* A handler that passes the check.                                        *)
LEMMA UploadKeeps ==
  ASSUME UploadInv, NEW u \in Uploaders, NEW desk \in Desks, NEW file \in Files,
         Upload(u, desk, file)
  PROVE  UploadInv'
<1>1. /\ upload'[u].stage = "store" /\ upload'[u].desk = desk /\ upload[u].stage = "idle"
      /\ \A v \in Uploaders : v # u => upload'[v] = upload[v]
  BY DEF Upload, UploadInv, UploadTypeOK, Waiting, NoUpload
<1>2. UploadTypeOK'
  BY DEF Upload, UploadInv, UploadTypeOK, Uploading
<1>3. ASSUME NEW k \in Desks PROVE AllowanceInv(k)'
  <2>1. u \notin BusyIn(upload, k) /\ u \notin CountingIn(upload, k) /\ u \notin CountingIn(upload', k)
    BY <1>1 DEF BusyIn, CountingIn
  <2>2. CountingIn(upload', k) = CountingIn(upload, k)
    BY <1>1, <2>1, SetsMove
  <2>3. CASE k = desk
    <3>1. Cardinality(BusyIn(upload', k)) <= Cardinality(Uploaders) /\ Cardinality(BusyIn(upload', k)) \in Nat
      <4>1. BusyIn(upload', k) \in SUBSET Uploaders
        BY DEF BusyIn
      <4> QED BY <4>1, BusyIsFinite, FS_Subset, FS_CardinalityType
    <3>2. counter[k] < Cap(k)
      BY <2>3 DEF Upload, UnderCap
    <3> QED BY <2>2, <3>1, <3>2, CapType, BusyIsFinite DEF Upload, UploadInv, UploadTypeOK, AllowanceInv, Cap
  <2>4. CASE k # desk
    <3>1. u \notin BusyIn(upload', k)
      BY <1>1, <2>4 DEF BusyIn
    <3>2. BusyIn(upload', k) = BusyIn(upload, k)
      BY <1>1, <2>1, <3>1, SetsMove
    <3> QED BY <2>2, <3>2 DEF Upload, UploadInv, AllowanceInv, Cap
  <2> QED BY <2>3, <2>4
<1> QED BY <1>2, <1>3 DEF UploadInv

(* A handler whose file is stored.                                         *)
LEMMA StoreKeeps ==
  ASSUME UploadInv, NEW u \in Uploaders, StoreBinary(u)
  PROVE  UploadInv'
<1> DEFINE d == upload[u].desk
<1>1. /\ d \in Desks /\ upload[u].stage = "store"
      /\ \A v \in Uploaders : v # u => upload'[v] = upload[v]
  BY DEF StoreBinary, Doing, UploadInv, UploadTypeOK, Uploading
<1>2. UploadTypeOK'
  <2>1. [stage |-> "count", desk |-> d] \in Uploading /\ NoUpload \in Uploading
    BY <1>1 DEF Uploading, NoUpload, Desks
  <2> QED BY <1>1, <2>1 DEF StoreBinary, UploadInv, UploadTypeOK
<1>3. ASSUME NEW k \in Desks PROVE AllowanceInv(k)'
  <2>1. u \notin CountingIn(upload, k) /\ (u \in BusyIn(upload, k) <=> k = d)
    BY <1>1 DEF BusyIn, CountingIn
  <2>2. stored'[k] = IF k = d THEN stored[k] + 1 ELSE stored[k]
    BY <1>1 DEF StoreBinary, UploadInv, UploadTypeOK
  <2>3. CASE upload' = [upload EXCEPT ![u] = [stage |-> "count", desk |-> d]] /\ UNCHANGED uncounted
    <3>1. upload'[u].stage = "count" /\ upload'[u].desk = d
      BY <2>3 DEF UploadInv, UploadTypeOK
    <3>2. (u \in BusyIn(upload', k) <=> k = d) /\ (u \in CountingIn(upload', k) <=> k = d)
      BY <3>1 DEF BusyIn, CountingIn
    <3>3. BusyIn(upload', k) = BusyIn(upload, k)
      BY <1>1, <2>1, <3>2, SetsMove
    <3>4. CASE k = d
      <4>1. CountingIn(upload', k) = CountingIn(upload, k) \cup {u}
        BY <1>1, <3>2, <3>4, SetsMove
      <4>2. Cardinality(CountingIn(upload', k)) = Cardinality(CountingIn(upload, k)) + 1
        BY <2>1, <4>1, FS_AddElement, BusyIsFinite
      <4> QED BY <2>2, <2>3, <3>3, <3>4, <4>2, BusyIsFinite, CapType
              DEF StoreBinary, UploadInv, UploadTypeOK, AllowanceInv, Cap
    <3>5. CASE k # d
      <4>1. CountingIn(upload', k) = CountingIn(upload, k)
        BY <1>1, <2>1, <3>2, <3>5, SetsMove
      <4> QED BY <2>2, <2>3, <3>3, <3>5, <4>1 DEF StoreBinary, UploadInv, AllowanceInv, Cap
    <3> QED BY <3>4, <3>5
  <2>4. CASE /\ upload' = [upload EXCEPT ![u] = NoUpload]
             /\ uncounted' = [uncounted EXCEPT ![d] = uncounted[d] + 1]
    <3>1. upload'[u].stage = "idle"
      BY <2>4 DEF UploadInv, UploadTypeOK, NoUpload
    <3>2. u \notin BusyIn(upload', k) /\ u \notin CountingIn(upload', k)
      BY <3>1 DEF BusyIn, CountingIn
    <3>3. BusyIn(upload', k) = BusyIn(upload, k) \ {u} /\ CountingIn(upload', k) = CountingIn(upload, k)
      BY <1>1, <2>1, <3>2, SetsMove
    <3>4. Cardinality(BusyIn(upload', k)) <= Cardinality(BusyIn(upload, k)) /\ Cardinality(BusyIn(upload', k)) \in Nat
      <4>1. BusyIn(upload', k) \in SUBSET BusyIn(upload, k)
        BY <3>3
      <4> QED BY <4>1, BusyIsFinite, FS_Subset, FS_CardinalityType
    <3>5. uncounted'[k] = IF k = d THEN uncounted[k] + 1 ELSE uncounted[k]
      BY <1>1, <2>4 DEF UploadInv, UploadTypeOK
    <3> QED BY <2>2, <3>3, <3>4, <3>5, BusyIsFinite, CapType
            DEF StoreBinary, UploadInv, UploadTypeOK, AllowanceInv, Cap
  <2> QED BY <2>3, <2>4 DEF StoreBinary
<1> QED BY <1>2, <1>3 DEF UploadInv

(* A handler that ends, with its file counted, given up, or not stored.    *)
LEMMA EndKeeps ==
  ASSUME UploadInv, NEW u \in Uploaders,
         StoreFails(u) \/ CountUpload(u) \/ NeverCounted(u)
  PROVE  UploadInv'
<1> DEFINE d == upload[u].desk
<1>1. /\ d \in Desks /\ upload[u].stage \in {"store", "count"}
      /\ upload' = [upload EXCEPT ![u] = NoUpload] /\ NoUpload \in Uploading
      /\ stored' = stored
  BY DEF StoreFails, CountUpload, NeverCounted, Doing, UploadInv, UploadTypeOK, Uploading,
         NoUpload, Desks
<1>2. UploadTypeOK'
  BY <1>1 DEF StoreFails, CountUpload, NeverCounted, UploadInv, UploadTypeOK
<1>3. ASSUME NEW k \in Desks PROVE AllowanceInv(k)'
  <2>1. /\ u \in BusyIn(upload, k) <=> k = d
        /\ u \in CountingIn(upload, k) <=> (k = d /\ upload[u].stage = "count")
    BY <1>1 DEF BusyIn, CountingIn
  <2>2. upload'[u].stage = "idle" /\ \A v \in Uploaders : v # u => upload'[v] = upload[v]
    BY <1>1 DEF UploadInv, UploadTypeOK, NoUpload
  <2>3. u \notin BusyIn(upload', k) /\ u \notin CountingIn(upload', k)
    BY <2>2 DEF BusyIn, CountingIn
  <2>4. /\ BusyIn(upload', k) = BusyIn(upload, k) \ {u}
        /\ CountingIn(upload', k) = CountingIn(upload, k) \ {u}
    BY <2>2, <2>3, SetsMove
  <2>5. Cardinality(BusyIn(upload', k)) = IF k = d THEN Cardinality(BusyIn(upload, k)) - 1
                                         ELSE Cardinality(BusyIn(upload, k))
    <3> DEFINE S == BusyIn(upload, k)
    <3>1. IsFiniteSet(S)
      BY BusyIsFinite
    <3>2. Cardinality(S \ {u}) = IF u \in S THEN Cardinality(S) - 1 ELSE Cardinality(S)
      <4> HIDE DEF S
      <4> QED BY <3>1, FS_RemoveElement
    <3> QED BY <2>1, <2>4, <3>2
  <2>6. Cardinality(CountingIn(upload', k)) = IF k = d /\ upload[u].stage = "count"
                                    THEN Cardinality(CountingIn(upload, k)) - 1
                                    ELSE Cardinality(CountingIn(upload, k))
    <3> DEFINE S == CountingIn(upload, k)
    <3>1. IsFiniteSet(S)
      BY BusyIsFinite
    <3>2. Cardinality(S \ {u}) = IF u \in S THEN Cardinality(S) - 1 ELSE Cardinality(S)
      <4> HIDE DEF S
      <4> QED BY <3>1, FS_RemoveElement
    <3> QED BY <2>1, <2>4, <3>2
  <2>7. CASE StoreFails(u)
    BY <1>1, <2>5, <2>6, <2>7, BusyIsFinite, CapType
       DEF StoreFails, Doing, UploadInv, UploadTypeOK, AllowanceInv, Cap
  <2>8. CASE CountUpload(u)
    <3>1. counter'[k] = IF k = d THEN counter[k] + 1 ELSE counter[k]
      BY <1>1, <2>8 DEF CountUpload, UploadInv, UploadTypeOK
    <3> QED BY <1>1, <2>5, <2>6, <2>8, <3>1, BusyIsFinite, CapType
            DEF CountUpload, Doing, UploadInv, UploadTypeOK, AllowanceInv, Cap
  <2>9. CASE NeverCounted(u)
    <3>1. uncounted'[k] = IF k = d THEN uncounted[k] + 1 ELSE uncounted[k]
      BY <1>1, <2>9 DEF NeverCounted, UploadInv, UploadTypeOK
    <3> QED BY <1>1, <2>5, <2>6, <2>9, <3>1, BusyIsFinite, CapType
            DEF NeverCounted, Doing, UploadInv, UploadTypeOK, AllowanceInv, Cap
  <2> QED BY <2>7, <2>8, <2>9
<1> QED BY <1>2, <1>3 DEF UploadInv

LEMMA RestartKeeps ==
  ASSUME UploadInv, Restart
  PROVE  UploadInv'
<1>1. UploadTypeOK'
  BY DEF Restart, UploadInv, UploadTypeOK, NoUpload, Uploading, Desks
<1>2. ASSUME NEW k \in Desks PROVE AllowanceInv(k)'
  <2>1. BusyIn(upload', k) = {} /\ CountingIn(upload', k) = {}
    BY DEF Restart, BusyIn, CountingIn, NoUpload
  <2>2. Cardinality(BusyIn(upload', k)) = 0 /\ Cardinality(CountingIn(upload', k)) = 0
    BY <2>1, FS_EmptySet
  <2> QED BY <2>2, CapType, BusyIsFinite
          DEF Restart, UploadInv, UploadTypeOK, AllowanceInv, Cap
<1> QED BY <1>1, <1>2 DEF UploadInv

LEMMA UploadStepInv == UploadInv /\ [UploadNext]_uploadVars => UploadInv'
<1> SUFFICES ASSUME UploadInv, [UploadNext]_uploadVars PROVE UploadInv'
  OBVIOUS
<1>1. CASE UNCHANGED uploadVars
  BY <1>1 DEF uploadVars, UploadInv, UploadTypeOK, AllowanceInv, BusyIn, CountingIn, Cap
<1>2. CASE UploadNext
  BY <1>2, RestartKeeps, UploadKeeps, StoreKeeps, EndKeeps DEF UploadNext
<1> QED BY <1>1, <1>2

(* The daily allowance holds up to the handlers that raced and the files   *)
(* that were never counted (upload in the three controllers).              *)
THEOREM AllowanceHolds == UploadSpec => []QuotaBounded
<1>1. UploadInv => QuotaBounded
  BY BusyIsFinite, CapType DEF UploadInv, UploadTypeOK, AllowanceInv, QuotaBounded
<1> QED BY <1>1, UploadInitInv, UploadStepInv, PTL DEF UploadSpec

-----------------------------------------------------------------------------
(* Pricing.                                                                *)

LEMMA DivMod ==
  ASSUME NEW a \in Int, NEW b \in Nat, b > 0
  PROVE  a = b * (a \div b) + (a % b)
BY SMTT(30)

(* Rounding is off by half a unit at most.                                 *)
LEMMA RoundedFits ==
  ASSUME NEW a \in Int, NEW b \in Nat \ {0}
  PROVE  /\ Rounded(a, b) \in Int
         /\ 2 * (b * Rounded(a, b)) <= 2 * a + b
         /\ 2 * a + b < 2 * (b * Rounded(a, b)) + 2 * b
<1>1. a \div b \in Int /\ a % b \in 0..(b - 1)
  OBVIOUS
<1>2. a = b * (a \div b) + (a % b)
  BY DivMod
<1>3. b * (a \div b + 1) = b * (a \div b) + b
  BY <1>1
<1>4. b * (a \div b) \in Int
  BY <1>1
<1>5. CASE 2 * (a % b) >= b
  <2>1. Rounded(a, b) = a \div b + 1
    BY <1>5 DEF Rounded
  <2> QED BY <1>1, <1>2, <1>3, <1>4, <1>5, <2>1
<1>6. CASE ~(2 * (a % b) >= b)
  <2>1. Rounded(a, b) = a \div b
    BY <1>6 DEF Rounded
  <2> QED BY <1>1, <1>2, <1>4, <1>6, <2>1
<1> QED BY <1>5, <1>6

(* Rounding keeps the order.                                               *)
LEMMA RoundedMonotone ==
  ASSUME NEW a \in Int, NEW c \in Int, a <= c, NEW b \in Nat \ {0}
  PROVE  Rounded(a, b) <= Rounded(c, b)
<1> DEFINE x == Rounded(a, b)
           y == Rounded(c, b)
<1>1. x \in Int /\ 2 * (b * x) <= 2 * a + b
  BY RoundedFits
<1>2. y \in Int /\ 2 * c + b < 2 * (b * y) + 2 * b
  BY RoundedFits
<1> HIDE DEF x, y
<1>3. b * x \in Int /\ b * y \in Int
  BY <1>1, <1>2
<1>4. b * x < b * y + b
  BY <1>1, <1>2, <1>3
<1>5. SUFFICES ASSUME y + 1 <= x PROVE FALSE
  BY <1>1, <1>2 DEF x, y
<1>6. b * (x - (y + 1)) >= 0
  BY <1>1, <1>2, <1>5
<1>7. b * (x - (y + 1)) = b * x - b * y - b
  BY <1>1, <1>2
<1> QED BY <1>3, <1>4, <1>6, <1>7

LEMMA RoundedInt ==
  ASSUME NEW a \in Int, NEW b \in Nat \ {0}
  PROVE  Rounded(a, b) \in Int
BY RoundedFits

LEMMA TimesMonotone ==
  ASSUME NEW a \in Int, NEW c \in Int, a <= c, NEW k \in Nat
  PROVE  a * k \in Int /\ c * k \in Int /\ a * k <= c * k
<1>1. (c - a) * k >= 0
  OBVIOUS
<1>2. (c - a) * k = c * k - a * k
  OBVIOUS
<1> QED BY <1>1, <1>2

LEMMA AtLeastKeeps ==
  ASSUME NEW a \in Int, NEW c \in Int, a <= c, NEW min \in Nat \cup {Nothing}
  PROVE  AtLeast(a, min) \in Int /\ AtLeast(c, min) \in Int /\ AtLeast(a, min) <= AtLeast(c, min)
<1>1. CASE min = Nothing
  BY <1>1 DEF AtLeast
<1>2. CASE min # Nothing
  <2>1. Rounded(min, 100) \in Int
    BY <1>2, RoundedInt
  <2> QED BY <1>2, <2>1 DEF AtLeast, Greatest
<1> QED BY <1>1, <1>2

LEMMA AtMostKeeps ==
  ASSUME NEW a \in Int, NEW c \in Int, a <= c, NEW max \in Nat \cup {Nothing}
  PROVE  AtMost(a, max) \in Int /\ AtMost(c, max) \in Int /\ AtMost(a, max) <= AtMost(c, max)
<1>1. CASE max = Nothing
  BY <1>1 DEF AtMost
<1>2. CASE max # Nothing
  <2>1. Rounded(max, 100) \in Int
    BY <1>2, RoundedInt
  <2> QED BY <1>2, <2>1 DEF AtMost, Least
<1> QED BY <1>1, <1>2

(* A fee grows with what it is charged on, whatever its rule says.         *)
LEMMA ApplyFeeMonotone ==
  ASSUME NEW a \in Int, NEW c \in Int, a <= c, NEW rule \in FeeRules
  PROVE  ApplyFee(a, rule) \in Int /\ ApplyFee(c, rule) \in Int
         /\ ApplyFee(a, rule) <= ApplyFee(c, rule)
<1> DEFINE fee(base) == IF rule.mode = "percent" THEN Rounded(base * rule.value, 10000)
                                                 ELSE Rounded(rule.value, 100)
<1>1. /\ rule.value \in Nat
      /\ rule.min \in Nat \cup {Nothing}
      /\ rule.max \in Nat \cup {Nothing}
  BY DEF FeeRules
<1>2. fee(a) \in Int /\ fee(c) \in Int /\ fee(a) <= fee(c)
  <2>1. CASE rule.mode = "percent"
    <3>1. a * rule.value \in Int /\ c * rule.value \in Int /\ a * rule.value <= c * rule.value
      BY <1>1, TimesMonotone
    <3> QED BY <2>1, <3>1, RoundedInt, RoundedMonotone
  <2>2. CASE rule.mode # "percent"
    <3>1. Rounded(rule.value, 100) \in Int
      BY <1>1, RoundedInt
    <3> QED BY <2>2, <3>1
  <2> QED BY <2>1, <2>2
<1>3. ApplyFee(a, rule) = AtMost(AtLeast(fee(a), rule.min), rule.max)
  BY DEF ApplyFee
<1>4. ApplyFee(c, rule) = AtMost(AtLeast(fee(c), rule.min), rule.max)
  BY DEF ApplyFee
<1> HIDE DEF fee
<1>5. /\ AtLeast(fee(a), rule.min) \in Int /\ AtLeast(fee(c), rule.min) \in Int
      /\ AtLeast(fee(a), rule.min) <= AtLeast(fee(c), rule.min)
  BY <1>1, <1>2, AtLeastKeeps
<1> QED BY <1>1, <1>3, <1>4, <1>5, AtMostKeeps

RowShape == [shippingRatePerKg : Nat, fee : [Fees -> FeeRules]]

LEMMA DefaultShape == DefaultRow \in RowShape
<1>1. DefaultRule("percent", 500, 200000, 5000000) \in FeeRules
  BY SMT DEF DefaultRule, FeeRules
<1>2. /\ DefaultRule("fixed", 500000, Nothing, Nothing) \in FeeRules
      /\ DefaultRule("percent", 800, 2500000, 35000000) \in FeeRules
  BY SMT DEF DefaultRule, FeeRules
<1> DEFINE r(f) == CASE f = "agentFee" -> DefaultRule("percent", 500, 200000, 5000000)
                     [] f = "misc"     -> DefaultRule("fixed", 500000, Nothing, Nothing)
                     [] f = "profit"   -> DefaultRule("percent", 800, 2500000, 35000000)
           g    == [f \in Fees |-> r(f)]
<1>3. ASSUME NEW f \in Fees PROVE r(f) \in FeeRules
  BY <1>1, <1>2, SMT DEF Fees
<1>4. g \in [Fees -> FeeRules]
  <2> HIDE DEF r
  <2> QED BY <1>3, SMT
<1>5. DefaultRow = [shippingRatePerKg |-> 450000, fee |-> g]
  BY SMT DEF DefaultRow
<1> HIDE DEF g
<1> QED BY <1>4, <1>5, SMT DEF RowShape

LEMMA SettingsShape ==
  /\ Settings \subseteq RowShape
  /\ Wares \subseteq [cost : Nat, grams : Nat, quantity : Nat \ {0}]
BY PricingAssumption, DefaultShape DEF Settings, RowShape

LEMMA FreightType ==
  ASSUME NEW ware \in Wares, NEW rate \in Nat
  PROVE  Freight(ware, rate) \in Int
<1>1. ware.grams * ware.quantity \in Int
  BY SettingsShape
<1>2. Rounded(ware.grams * ware.quantity, 10) \in Int
  BY <1>1, RoundedInt
<1>3. Rounded(ware.grams * ware.quantity, 10) * rate \in Int
  BY <1>2
<1> QED BY <1>3, RoundedInt DEF Freight

(* Ware b costs at least what a costs, in the same quantity.               *)
LEMMA SupplierCostKeeps ==
  ASSUME NEW a \in Wares, NEW b \in Wares, a.quantity = b.quantity, a.cost <= b.cost
  PROVE  /\ SupplierCost(a) \in Int /\ SupplierCost(b) \in Int
         /\ SupplierCost(a) <= SupplierCost(b)
<1>1. a.cost \in Nat /\ b.cost \in Nat /\ a.quantity \in Nat
  BY SettingsShape
<1>2. /\ a.cost * a.quantity \in Int /\ b.cost * a.quantity \in Int
      /\ a.cost * a.quantity <= b.cost * a.quantity
  BY <1>1, TimesMonotone
<1> QED BY <1>2, RoundedInt, RoundedMonotone DEF SupplierCost

LEMMA LandingMonotone ==
  ASSUME NEW a \in Wares, NEW b \in Wares, a.quantity = b.quantity, a.cost <= b.cost,
         NEW config \in Settings
  PROVE  /\ LandingTotal(a, config) \in Int
         /\ a.grams = b.grams => LandingTotal(a, config) <= LandingTotal(b, config)
<1> DEFINE x == SupplierCost(a)
           y == SupplierCost(b)
<1>1. x \in Int /\ y \in Int /\ x <= y
  BY SupplierCostKeeps
<1>2. config.shippingRatePerKg \in Nat /\ \A f \in Fees : config.fee[f] \in FeeRules
  BY SettingsShape DEF RowShape
<1>3. /\ Freight(a, config.shippingRatePerKg) \in Int
      /\ Freight(b, config.shippingRatePerKg) \in Int
      /\ a.grams = b.grams => Freight(a, config.shippingRatePerKg) = Freight(b, config.shippingRatePerKg)
  <2>1. Freight(a, config.shippingRatePerKg) \in Int /\ Freight(b, config.shippingRatePerKg) \in Int
    BY <1>2, FreightType
  <2>2. a.grams = b.grams => Freight(a, config.shippingRatePerKg) = Freight(b, config.shippingRatePerKg)
    BY DEF Freight
  <2> QED BY <2>1, <2>2
<1>4. /\ LandingFee(a, config) = ApplyFee(x, config.fee["agentFee"]) + ApplyFee(x, config.fee["misc"])
                                   + ApplyFee(x, config.fee["profit"])
      /\ LandingFee(b, config) = ApplyFee(y, config.fee["agentFee"]) + ApplyFee(y, config.fee["misc"])
                                   + ApplyFee(y, config.fee["profit"])
  BY DEF LandingFee
<1>5. /\ LandingTotal(a, config) = x + Freight(a, config.shippingRatePerKg) + LandingFee(a, config)
      /\ LandingTotal(b, config) = y + Freight(b, config.shippingRatePerKg) + LandingFee(b, config)
  BY DEF LandingTotal
<1> HIDE DEF x, y
<1>6. ASSUME NEW f \in Fees
      PROVE  /\ ApplyFee(x, config.fee[f]) \in Int /\ ApplyFee(y, config.fee[f]) \in Int
             /\ ApplyFee(x, config.fee[f]) <= ApplyFee(y, config.fee[f])
  BY <1>1, <1>2, ApplyFeeMonotone
<1>7. /\ LandingFee(a, config) \in Int /\ LandingFee(b, config) \in Int
      /\ LandingFee(a, config) <= LandingFee(b, config)
  <2>1. "agentFee" \in Fees /\ "misc" \in Fees /\ "profit" \in Fees
    BY DEF Fees
  <2> QED BY <1>4, <1>6, <2>1
<1> QED BY <1>1, <1>3, <1>5, <1>7

LEMMA BreakdownMonotone ==
  ASSUME NEW a \in Wares, NEW b \in Wares, a.quantity = b.quantity, a.cost <= b.cost,
         a.grams = b.grams
  PROVE  BreakdownTotal(a) <= BreakdownTotal(b)
<1> DEFINE x == SupplierCost(a)
           y == SupplierCost(b)
           charge(p) == Least(Greatest(1500000 + 8 * p, 2500000), 35000000)
<1>1. x \in Int /\ y \in Int /\ x <= y
  BY SupplierCostKeeps
<1>2. Freight(a, 450000) \in Int /\ Freight(a, 450000) = Freight(b, 450000)
  <2>1. Freight(a, 450000) \in Int
    BY FreightType, SMT
  <2>2. Freight(a, 450000) = Freight(b, 450000)
    BY SMT DEF Freight
  <2> QED BY <2>1, <2>2, SMT
<1>3. /\ BreakdownTotal(a) = x + Freight(a, 450000) + ServiceFee(x)
      /\ BreakdownTotal(b) = y + Freight(b, 450000) + ServiceFee(y)
  BY SMT DEF BreakdownTotal, SupplierCost
<1> HIDE DEF x, y
<1>4. charge(x) \in Int /\ charge(y) \in Int /\ charge(x) <= charge(y)
  BY <1>1, SMT DEF Least, Greatest
<1>5. ServiceFee(x) = Rounded(charge(x), 100) /\ ServiceFee(y) = Rounded(charge(y), 100)
  BY SMT DEF ServiceFee
<1> HIDE DEF charge
<1>6. ServiceFee(x) \in Int /\ ServiceFee(y) \in Int /\ ServiceFee(x) <= ServiceFee(y)
  BY <1>4, <1>5, RoundedInt, RoundedMonotone, SMT
<1> QED BY <1>1, <1>2, <1>3, <1>6, SMT

(* A handler that is about to write holds settings that staff entered.     *)
EntryInv(e) == e.stage = "write" => e.config \in Configs

PricingInv ==
  /\ PricingTypeOK
  /\ \A c \in Callers : EntryInv(entry[c])

LEMMA PricingInitInv == PricingInit => PricingInv
BY DEF PricingInit, PricingInv, PricingTypeOK, NoEntry, Entries, EntryInv, Settings

LEMMA NoEntryFits == NoEntry \in Entries /\ EntryInv(NoEntry)
BY DEF NoEntry, Entries, EntryInv

(* Each step changes the row and one handler.                              *)
LEMMA PricingKeeps ==
  ASSUME PricingInv, NEW c \in Callers, NEW e \in Entries, EntryInv(e),
         entry' = [entry EXCEPT ![c] = e], row' \in Settings \cup {Nothing}
  PROVE  PricingInv'
<1>1. PricingTypeOK'
  BY DEF PricingInv, PricingTypeOK
<1>2. ASSUME NEW d \in Callers PROVE EntryInv(entry[d])'
  <2>1. entry'[d] = IF d = c THEN e ELSE entry[d]
    BY DEF PricingInv, PricingTypeOK
  <2> QED BY <2>1 DEF PricingInv, EntryInv
<1> QED BY <1>1, <1>2 DEF PricingInv

LEMMA ProceedKeeps ==
  ASSUME PricingInv, NEW c \in Callers, Proceed(c), row' \in Settings \cup {Nothing}
  PROVE  PricingInv'
<1>1. entry[c] \in Entries
  BY DEF PricingInv, PricingTypeOK
<1>2. CASE entry[c].config = Nothing
  <2>1. entry' = [entry EXCEPT ![c] = NoEntry]
    BY <1>2 DEF Proceed
  <2> QED BY <2>1, NoEntryFits, PricingKeeps
<1>3. CASE entry[c].config # Nothing
  <2> DEFINE e == [entry[c] EXCEPT !.stage = "write"]
  <2>1. e \in Entries /\ EntryInv(e)
    BY <1>1, <1>3 DEF Entries, EntryInv
  <2>2. entry' = [entry EXCEPT ![c] = e]
    BY <1>3 DEF Proceed
  <2> HIDE DEF e
  <2> QED BY <2>1, <2>2, PricingKeeps
<1> QED BY <1>2, <1>3

LEMMA PricingStepInv == PricingInv /\ [PricingNext]_pricingVars => PricingInv'
<1> SUFFICES ASSUME PricingInv, [PricingNext]_pricingVars PROVE PricingInv'
  OBVIOUS
<1>1. row \in Settings \cup {Nothing} /\ DefaultRow \in Settings /\ Configs \subseteq Settings
  BY DEF PricingInv, PricingTypeOK, Settings
<1>2. ASSUME NEW c \in Callers, GetLandingConfig(c) PROVE PricingInv'
  <2> DEFINE e == [stage |-> "create", config |-> Nothing]
  <2>1. e \in Entries /\ EntryInv(e)
    BY DEF Entries, EntryInv
  <2>2. entry' = [entry EXCEPT ![c] = e] /\ UNCHANGED row
    BY <1>2 DEF GetLandingConfig
  <2> HIDE DEF e
  <2> QED BY <1>1, <2>1, <2>2, PricingKeeps
<1>3. ASSUME NEW c \in Callers, NEW config \in Configs, UpdatePricingConfig(c, config) PROVE PricingInv'
  <2> DEFINE stage == IF row = Nothing THEN "create" ELSE "write"
             e     == [stage |-> stage, config |-> config]
  <2>1. stage \in {"create", "write"}
    OBVIOUS
  <2>2. e \in Entries /\ EntryInv(e)
    <3> HIDE DEF stage
    <3> QED BY <2>1 DEF Entries, EntryInv
  <2>3. entry' = [entry EXCEPT ![c] = e] /\ UNCHANGED row
    BY <1>3 DEF UpdatePricingConfig
  <2> HIDE DEF e
  <2> QED BY <1>1, <2>2, <2>3, PricingKeeps
<1>4. ASSUME NEW c \in Callers, EnsurePricingConfig(c) PROVE PricingInv'
  <2>1. CASE row' = DefaultRow /\ Proceed(c)
    BY <1>1, <2>1, ProceedKeeps
  <2>2. CASE entry' = [entry EXCEPT ![c] = NoEntry] /\ UNCHANGED row
    BY <1>1, <2>2, NoEntryFits, PricingKeeps
  <2> QED BY <1>4, <2>1, <2>2 DEF EnsurePricingConfig
<1>5. ASSUME NEW c \in Callers, WriteRow(c) PROVE PricingInv'
  <2>1. entry[c].config \in Configs
    BY <1>5 DEF WriteRow, PricingInv, EntryInv
  <2> QED BY <1>1, <1>5, <2>1, NoEntryFits, PricingKeeps DEF WriteRow
<1>6. ASSUME NEW c \in Callers, EntryDies(c) PROVE PricingInv'
  BY <1>1, <1>6, NoEntryFits, PricingKeeps DEF EntryDies
<1>7. CASE UNCHANGED pricingVars
  BY <1>7 DEF pricingVars, PricingInv, PricingTypeOK, EntryInv
<1> QED BY <1>2, <1>3, <1>4, <1>5, <1>6, <1>7 DEF PricingNext

(* Whatever settings staff enter, what costs more to buy is never offered  *)
(* for less (applyFee, calculateServiceFee).                               *)
THEOREM PricesKeepTheOrder == PricingSpec => []DearerWaresCostMore
<1>1. ASSUME PricingInv PROVE DearerWaresCostMore
  <2>1. SUFFICES ASSUME row # Nothing, NEW a \in Wares, NEW b \in Wares,
                        a.grams = b.grams, a.quantity = b.quantity, a.cost <= b.cost
                 PROVE  /\ LandingTotal(a, row) <= LandingTotal(b, row)
                        /\ UnitPrice(a, row) <= UnitPrice(b, row)
                        /\ BreakdownTotal(a) <= BreakdownTotal(b)
    BY DEF DearerWaresCostMore
  <2>2. row \in Settings
    BY <1>1, <2>1 DEF PricingInv, PricingTypeOK
  <2>3. LandingTotal(a, row) \in Int /\ LandingTotal(a, row) <= LandingTotal(b, row)
    BY <2>1, <2>2, LandingMonotone
  <2>4. LandingTotal(b, row) \in Int
    <3>1. b.quantity = b.quantity /\ b.cost <= b.cost
      BY SettingsShape
    <3> QED BY <2>2, <3>1, LandingMonotone
  <2>5. UnitPrice(a, row) <= UnitPrice(b, row)
    <3>1. a.quantity \in Nat \ {0}
      BY SettingsShape
    <3> QED BY <2>1, <2>3, <2>4, <3>1, RoundedMonotone DEF UnitPrice
  <2> QED BY <2>1, <2>3, <2>5, BreakdownMonotone
<1> QED BY <1>1, PricingInitInv, PricingStepInv, PTL DEF PricingSpec

(* Settings that staff entered are never put back to the default           *)
(* (ensurePricingConfig).                                                  *)
THEOREM SettingsStay == PricingSpec => SettingsSurvive
<1>1. ASSUME PricingInv, [PricingNext]_pricingVars PROVE row \in Configs => row' \in Configs
  <2>1. CASE UNCHANGED pricingVars
    BY <2>1 DEF pricingVars
  <2>2. ASSUME NEW c \in Callers, EnsurePricingConfig(c), row \in Configs PROVE UNCHANGED row
    BY <2>2, PricingAssumption DEF EnsurePricingConfig
  <2>3. ASSUME NEW c \in Callers, WriteRow(c) PROVE row' \in Configs
    BY <1>1, <2>3 DEF WriteRow, PricingInv, EntryInv
  <2>4. CASE PricingNext
    BY <2>2, <2>3, <2>4 DEF PricingNext, GetLandingConfig, UpdatePricingConfig, EntryDies
  <2> QED BY <1>1, <2>1, <2>4
<1> QED BY <1>1, PricingInitInv, PricingStepInv, PTL DEF PricingSpec, SettingsSurvive

-----------------------------------------------------------------------------
(* OpsAccess.                                                              *)

(* Password p is the one that account a was made with, or a has its own.   *)
Invites(ac, s, p) == ac[s] # NoAccount /\ ac[s].password \in {p, None}

(* What the handlers that are running found out, and what stays true of it *)
(* while others run: accounts and the system role admin are there to stay. *)
ActInv(a, ac) ==
  \/ a = NoAct
  \/ /\ a \in Acts /\ a.op = "createAgent"
     /\ a.role \in Roles /\ a.target \in Staff /\ a.password \in Passwords
     /\ a.stage = "mail" => Invites(ac, a.target, a.password)
  \/ /\ a \in Acts /\ a.op = "createRole" /\ a.role \in Roles
  \/ /\ a \in Acts /\ a.op = "updateRole" /\ a.role \in Roles
     /\ a.stage = "write" /\ a.role = "admin" => a.grant = Permissions
  \/ /\ a \in Acts /\ a.op = "setAgentDisabled" /\ a.target \in Staff /\ a.actor # a.target
     /\ a.stage = "write" => ac[a.target] # NoAccount
  \/ /\ a \in Acts /\ a.op = "completeOpsSetup" /\ a.target \in Staff
     /\ ac[a.target] # NoAccount

OpsInv ==
  /\ OpsTypeOK
  /\ perms["admin"] = Permissions
  /\ \A h \in Desk : ActInv(act[h], account)
  /\ \A m \in invited : Invites(account, m.to, m.password)

LEMMA OpsInitInv == OpsInit => OpsInv
<1> SUFFICES ASSUME OpsInit PROVE OpsInv
  OBVIOUS
<1>1. ASSUME NEW r \in Roles PROVE perms[r] \in (SUBSET Permissions) \cup {NoRole}
  <2>1. perms[r] = Permissions \/ perms[r] = {"catalog"} \/ perms[r] = NoRole
    BY DEF OpsInit
  <2>2. {"catalog"} \in SUBSET Permissions
    BY DEF Permissions
  <2> QED BY <2>1, <2>2
<1>2. perms \in [Roles -> (SUBSET Permissions) \cup {NoRole}] /\ perms["admin"] = Permissions
  BY <1>1 DEF OpsInit, Roles
<1>3. \A r \in {"admin", "legacy admin", "legacy agent"} : Account(r) \in Accounts
  BY DEF Account, Accounts, Roles
<1>4. account \in [Staff -> Accounts \cup {NoAccount}]
  BY <1>3 DEF OpsInit
<1>5. act \in [Desk -> Acts \cup {NoAct}] /\ \A h \in Desk : ActInv(act[h], account)
  BY DEF OpsInit, ActInv
<1>6. calls \in 0..MaxCalls /\ invited = {}
  <2>1. MaxCalls \in Nat
    BY OpsAssumption
  <2>2. calls = 0 /\ invited = {}
    BY DEF OpsInit
  <2> QED BY <2>1, <2>2
<1> QED BY <1>2, <1>4, <1>5, <1>6 DEF OpsInv, OpsTypeOK

(* No account is ever removed, and a password is replaced by its owner     *)
(* only: what handlers and invitations rely on.                            *)
Keeps(ac, ad) ==
  \A s \in Staff : ac[s] # NoAccount =>
    ad[s] # NoAccount /\ ad[s].password \in {ac[s].password, None}

LEMMA InvitesKeeps ==
  ASSUME NEW ac, NEW ad, Keeps(ac, ad), NEW s \in Staff, NEW p, Invites(ac, s, p)
  PROVE  Invites(ad, s, p)
BY DEF Keeps, Invites

LEMMA ActKeeps ==
  ASSUME NEW ac, NEW ad, Keeps(ac, ad), NEW a, ActInv(a, ac)
  PROVE  ActInv(a, ad)
BY InvitesKeeps DEF ActInv, Keeps

(* Each step changes accounts for the better, and one handler.             *)
LEMMA OpsKeeps ==
  ASSUME OpsInv, NEW h \in Desk, NEW a, act' = [act EXCEPT ![h] = a], ActInv(a, account'),
         Keeps(account, account'), account' \in [Staff -> Accounts \cup {NoAccount}],
         perms' \in [Roles -> (SUBSET Permissions) \cup {NoRole}], perms'["admin"] = Permissions,
         calls' \in 0..MaxCalls, invited' \subseteq [to : Staff, password : Passwords],
         \A m \in invited' : m \in invited \/ Invites(account', m.to, m.password)
  PROVE  OpsInv'
<1>1. a \in Acts \cup {NoAct}
  BY DEF ActInv
<1>2. OpsTypeOK'
  BY <1>1 DEF OpsInv, OpsTypeOK
<1>3. ASSUME NEW g \in Desk PROVE ActInv(act'[g], account')
  <2>1. CASE g = h
    BY <2>1 DEF OpsInv, OpsTypeOK
  <2>2. CASE g # h
    <3>1. act'[g] = act[g] /\ ActInv(act[g], account)
      BY <2>2 DEF OpsInv, OpsTypeOK
    <3> QED BY <3>1, ActKeeps
  <2> QED BY <2>1, <2>2
<1>4. ASSUME NEW m \in invited' PROVE Invites(account', m.to, m.password)
  <2>1. CASE m \in invited
    <3>1. m.to \in Staff /\ Invites(account, m.to, m.password)
      BY <2>1 DEF OpsInv, OpsTypeOK
    <3> QED BY <3>1, InvitesKeeps
  <2> QED BY <1>4, <2>1
<1> QED BY <1>2, <1>3, <1>4 DEF OpsInv

LEMMA SameKeeps == \A ac : Keeps(ac, ac)
BY DEF Keeps

(* A request that comes in.                                                *)
LEMMA BeginKeeps ==
  ASSUME OpsInv, NEW h \in Desk, NEW op, NEW actor, NEW target, NEW role, NEW grant,
         NEW disable, NEW password,
         Begin(h, op, actor, target, role, grant, disable, password),
         ActInv([op |-> op, stage |-> "check", actor |-> actor, target |-> target, role |-> role,
                 grant |-> grant, disable |-> disable, password |-> password], account)
  PROVE  OpsInv'
<1> DEFINE a == [op |-> op, stage |-> "check", actor |-> actor, target |-> target, role |-> role,
                 grant |-> grant, disable |-> disable, password |-> password]
<1>1. ActInv(a, account) /\ act' = [act EXCEPT ![h] = a]
  BY DEF Begin
<1>2. calls' \in 0..MaxCalls /\ UNCHANGED <<perms, account, invited>>
  <2>1. calls \in 0..MaxCalls /\ MaxCalls \in Nat
    BY OpsAssumption DEF OpsInv, OpsTypeOK
  <2>2. calls < MaxCalls /\ calls' = calls + 1 /\ UNCHANGED <<perms, account, invited>>
    BY DEF Begin
  <2> QED BY <2>1, <2>2
<1> HIDE DEF a
<1> QED BY <1>1, <1>2, OpsKeeps, SameKeeps DEF OpsInv, OpsTypeOK

LEMMA OpsCallKeeps ==
  ASSUME OpsInv, NEW h \in Desk, OpsCall(h)
  PROVE  OpsInv'
<1> USE DEF Acts, Ops
<1>1. PICK actor \in Staff :
        \/ \E role \in Roles, grant \in Grants :
             CreateRole(h, actor, role, grant) \/ UpdateRole(h, actor, role, grant)
        \/ \E target \in Staff, role \in Roles, password \in Passwords :
             CreateAgent(h, actor, target, role, password)
        \/ \E target \in Staff, disable \in BOOLEAN : SetAgentDisabled(h, actor, target, disable)
        \/ CompleteOpsSetup(h, actor)
  BY DEF OpsCall
<1>2. ASSUME NEW role \in Roles, NEW grant \in Grants, CreateRole(h, actor, role, grant)
      PROVE  OpsInv'
  <2>1. ActInv([op |-> "createRole", stage |-> "check", actor |-> actor, target |-> None,
                role |-> role, grant |-> grant, disable |-> FALSE, password |-> None], account)
    BY OpsAssumption DEF ActInv
  <2> QED BY <1>2, <2>1, BeginKeeps DEF CreateRole
<1>3. ASSUME NEW role \in Roles, NEW grant \in Grants, UpdateRole(h, actor, role, grant)
      PROVE  OpsInv'
  <2>1. ActInv([op |-> "updateRole", stage |-> "check", actor |-> actor, target |-> None,
                role |-> role, grant |-> grant, disable |-> FALSE, password |-> None], account)
    BY OpsAssumption DEF ActInv
  <2> QED BY <1>3, <2>1, BeginKeeps DEF UpdateRole
<1>4. ASSUME NEW target \in Staff, NEW role \in Roles, NEW password \in Passwords,
             CreateAgent(h, actor, target, role, password)
      PROVE  OpsInv'
  <2>1. ActInv([op |-> "createAgent", stage |-> "check", actor |-> actor, target |-> target,
                role |-> role, grant |-> {}, disable |-> FALSE, password |-> password], account)
    BY DEF ActInv
  <2> QED BY <1>4, <2>1, BeginKeeps DEF CreateAgent
<1>5. ASSUME NEW target \in Staff, NEW disable \in BOOLEAN,
             SetAgentDisabled(h, actor, target, disable)
      PROVE  OpsInv'
  <2>1. ActInv([op |-> "setAgentDisabled", stage |-> "check", actor |-> actor, target |-> target,
                role |-> None, grant |-> {}, disable |-> disable, password |-> None], account)
    BY <1>5 DEF ActInv, SetAgentDisabled, SomebodyElse
  <2> QED BY <1>5, <2>1, BeginKeeps DEF SetAgentDisabled
<1>6. ASSUME CompleteOpsSetup(h, actor) PROVE OpsInv'
  <2>1. ActInv([op |-> "completeOpsSetup", stage |-> "check", actor |-> actor, target |-> actor,
                role |-> None, grant |-> {}, disable |-> FALSE, password |-> None], account)
    BY <1>6 DEF ActInv, CompleteOpsSetup, SignedIn, Known
  <2> QED BY <1>6, <2>1, BeginKeeps DEF CompleteOpsSetup
<1> QED BY <1>1, <1>2, <1>3, <1>4, <1>5, <1>6

(* A handler that ends without having changed anything.                    *)
LEMMA FinishKeeps ==
  ASSUME OpsInv, NEW h \in Desk, Finish(h), UNCHANGED <<perms, account, calls, invited>>
  PROVE  OpsInv'
<1>1. act' = [act EXCEPT ![h] = NoAct] /\ ActInv(NoAct, account)
  BY DEF Finish, Become, ActInv
<1> QED BY <1>1, OpsKeeps, SameKeeps DEF OpsInv, OpsTypeOK

(* A handler whose check succeeds.                                         *)
LEMMA CheckKeeps ==
  ASSUME OpsInv, NEW h \in Desk, NEW op, NEW ok, Check(h, op, ok),
         ok => ActInv([act[h] EXCEPT !.stage = "write"], account)
  PROVE  OpsInv'
<1>1. CASE ok
  <2> DEFINE a == [act[h] EXCEPT !.stage = "write"]
  <2>1. act' = [act EXCEPT ![h] = a] /\ ActInv(a, account)
    BY <1>1 DEF Check, Advance, Become
  <2>2. UNCHANGED <<perms, account, calls, invited>>
    BY DEF Check
  <2> HIDE DEF a
  <2> QED BY <2>1, <2>2, OpsKeeps, SameKeeps DEF OpsInv, OpsTypeOK
<1>2. CASE ~ok
  BY <1>2, FinishKeeps DEF Check
<1> QED BY <1>1, <1>2

(* What the record of a handler is, by its operation.                      *)
LEMMA ActOf ==
  ASSUME OpsInv, NEW h \in Desk, NEW op, NEW stage, At(h, op, stage)
  PROVE  /\ act[h] \in Acts /\ act[h].op = op /\ act[h].stage = stage /\ ActInv(act[h], account)
         /\ op = "createAgent" => /\ act[h].role \in Roles /\ act[h].target \in Staff
                                  /\ act[h].password \in Passwords
         /\ op = "createRole" => act[h].role \in Roles
         /\ op = "updateRole" => act[h].role \in Roles
         /\ op = "updateRole" /\ stage = "write" /\ act[h].role = "admin" => act[h].grant = Permissions
         /\ op = "createAgent" /\ stage = "mail" => Invites(account, act[h].target, act[h].password)
         /\ op = "setAgentDisabled" /\ stage = "write" => account[act[h].target] # NoAccount
         /\ op = "setAgentDisabled" => act[h].target \in Staff /\ act[h].actor # act[h].target
         /\ op = "completeOpsSetup" => act[h].target \in Staff /\ account[act[h].target] # NoAccount
<1>1. act[h] # NoAct /\ act[h].op = op /\ act[h].stage = stage /\ ActInv(act[h], account)
  BY DEF At, OpsInv
<1> QED BY <1>1 DEF ActInv

LEMMA ChecksKeep ==
  ASSUME OpsInv, NEW h \in Desk, CheckSlug(h) \/ CheckGrant(h) \/ CheckAddress(h) \/ CheckTarget(h)
  PROVE  OpsInv'
<1> DEFINE a == [act[h] EXCEPT !.stage = "write"]
<1>1. ASSUME act[h] \in Acts
      PROVE  /\ a \in Acts /\ a.op = act[h].op /\ a.stage = "write" /\ a.role = act[h].role
             /\ a.target = act[h].target /\ a.password = act[h].password
             /\ a.grant = act[h].grant /\ a.actor = act[h].actor
  BY <1>1 DEF Acts
<1>2. CASE CheckSlug(h)
  <2>1. At(h, "createRole", "check")
    BY <1>2 DEF CheckSlug, Check
  <2>2. ActInv(a, account)
    BY <1>1, <2>1, ActOf DEF ActInv
  <2> QED BY <1>2, <2>2, CheckKeeps DEF CheckSlug
<1>3. CASE CheckGrant(h)
  <2>1. At(h, "updateRole", "check")
    BY <1>3 DEF CheckGrant, Check
  <2>2. MayGrant(act[h].role, act[h].grant) => ActInv(a, account)
    BY <1>1, <2>1, ActOf DEF ActInv, MayGrant
  <2> QED BY <1>3, <2>2, CheckKeeps DEF CheckGrant
<1>4. CASE CheckAddress(h)
  <2>1. At(h, "createAgent", "check")
    BY <1>4 DEF CheckAddress, Check
  <2>2. ActInv(a, account)
    BY <1>1, <2>1, ActOf DEF ActInv
  <2> QED BY <1>4, <2>2, CheckKeeps DEF CheckAddress
<1>5. CASE CheckTarget(h)
  <2>1. At(h, "setAgentDisabled", "check")
    BY <1>5 DEF CheckTarget, Check
  <2>2. Known(act[h].target) => ActInv(a, account)
    BY <1>1, <2>1, ActOf DEF ActInv, Known
  <2> QED BY <1>5, <2>2, CheckKeeps DEF CheckTarget
<1> QED BY <1>2, <1>3, <1>4, <1>5

(* A role that is written: the system role admin stays what it is.         *)
LEMMA RolesKeep ==
  ASSUME OpsInv, NEW h \in Desk, InsertRole(h) \/ WriteGrant(h)
  PROVE  OpsInv'
<1>1. act[h].role \in Roles /\ act[h].grant \in SUBSET Permissions
  <2>1. At(h, "createRole", "write") \/ At(h, "updateRole", "write")
    BY DEF InsertRole, WriteGrant
  <2> QED BY <2>1, ActOf DEF Acts
<1>2. perms["admin"] # NoRole
  <2>1. "catalog" \in Permissions /\ "catalog" \notin NoRole
    BY DEF Permissions, NoRole
  <2> QED BY <2>1 DEF OpsInv
<1>3. perms' \in [Roles -> (SUBSET Permissions) \cup {NoRole}]
  BY <1>1 DEF InsertRole, WriteGrant, OpsInv, OpsTypeOK
<1>4. perms'["admin"] = Permissions
  <2>1. CASE InsertRole(h)
    BY <1>1, <1>2, <2>1 DEF InsertRole, OpsInv, OpsTypeOK, Roles
  <2>2. CASE WriteGrant(h)
    <3>1. act[h].role = "admin" => act[h].grant = Permissions
      <4>1. At(h, "updateRole", "write")
        BY <2>2 DEF WriteGrant
      <4> QED BY <4>1, ActOf
    <3> QED BY <1>1, <2>2, <3>1 DEF WriteGrant, OpsInv, OpsTypeOK, Roles
  <2> QED BY <2>1, <2>2
<1>5. act' = [act EXCEPT ![h] = NoAct] /\ ActInv(NoAct, account) /\ UNCHANGED <<account, calls, invited>>
  BY DEF InsertRole, WriteGrant, Finish, Become, ActInv
<1> QED BY <1>3, <1>4, <1>5, OpsKeeps, SameKeeps DEF OpsInv, OpsTypeOK

LEMMA AccountsDiffer ==
  /\ "none" \notin Roles /\ NoAccount \notin Accounts
  /\ \A a \in Accounts : a # NoAccount
<1>1. "none" \notin Roles \cup {"legacy admin", "legacy agent"}
  BY OpsAssumption DEF Roles
<1>2. \A a \in Accounts : a.role \in Roles \cup {"legacy admin", "legacy agent"}
  BY DEF Accounts
<1>3. NoAccount.role = "none"
  BY DEF NoAccount
<1> QED BY <1>1, <1>2, <1>3

LEMMA InsertAgentKeeps ==
  ASSUME OpsInv, NEW h \in Desk, InsertAgent(h)
  PROVE  OpsInv'
<1> DEFINE s == act[h].target
           b == [role |-> act[h].role, disabled |-> FALSE, mustChangePassword |-> TRUE,
                 password |-> act[h].password]
           a == [act[h] EXCEPT !.stage = "mail"]
<1>1. /\ act[h] \in Acts /\ act[h].op = "createAgent" /\ s \in Staff /\ act[h].role \in Roles
      /\ act[h].password \in Passwords
  BY ActOf DEF InsertAgent
<1>2. CASE Known(s) /\ Finish(h) /\ UNCHANGED account
  BY <1>2, FinishKeeps DEF InsertAgent
<1>3. CASE ~Known(s) /\ account' = [account EXCEPT ![s] = b] /\ Advance(h, "mail")
  <2>1. b \in Accounts /\ b.password = act[h].password
    BY <1>1 DEF Accounts
  <2>2. act' = [act EXCEPT ![h] = a]
    BY <1>3 DEF Advance, Become
  <2>3. /\ a \in Acts /\ a.op = "createAgent" /\ a.target = s /\ a.role = act[h].role
        /\ a.password = act[h].password
    BY <1>1 DEF Acts
  <2> HIDE DEF b, a, s
  <2>4. account'[s] = b /\ account' \in [Staff -> Accounts \cup {NoAccount}]
    BY <1>1, <1>3, <2>1 DEF OpsInv, OpsTypeOK
  <2>5. Invites(account', s, act[h].password)
    BY <2>1, <2>4, AccountsDiffer DEF Invites
  <2>6. ActInv(a, account')
    BY <1>1, <2>3, <2>5 DEF ActInv
  <2>7. Keeps(account, account')
    BY <1>1, <1>3 DEF Keeps, Known, OpsInv, OpsTypeOK
  <2> QED BY <2>2, <2>4, <2>6, <2>7, OpsKeeps DEF InsertAgent, OpsInv, OpsTypeOK
<1> QED BY <1>2, <1>3 DEF InsertAgent

LEMMA MailInvitationKeeps ==
  ASSUME OpsInv, NEW h \in Desk, MailInvitation(h)
  PROVE  OpsInv'
<1>1. /\ act[h].target \in Staff /\ act[h].password \in Passwords
      /\ Invites(account, act[h].target, act[h].password)
  <2>1. At(h, "createAgent", "mail")
    BY DEF MailInvitation
  <2> QED BY <2>1, ActOf
<1>2. /\ act' = [act EXCEPT ![h] = NoAct] /\ ActInv(NoAct, account)
      /\ UNCHANGED <<perms, account, calls>> /\ invited' = invited \cup {Invitation(h)}
  BY DEF MailInvitation, Finish, Become, ActInv
<1>3. /\ Invitation(h) \in [to : Staff, password : Passwords]
      /\ Invitation(h).to = act[h].target /\ Invitation(h).password = act[h].password
  BY <1>1 DEF Invitation
<1>4. \A m \in invited' : m \in invited \/ Invites(account', m.to, m.password)
  BY <1>1, <1>2, <1>3
<1>5. invited' \subseteq [to : Staff, password : Passwords]
  BY <1>2, <1>3 DEF OpsInv, OpsTypeOK
<1> QED BY <1>2, <1>4, <1>5, OpsKeeps, SameKeeps DEF OpsInv, OpsTypeOK

(* An account that somebody disables, or whose password its owner replaces.*)
LEMMA AccountKeeps ==
  ASSUME OpsInv, NEW s \in Staff, account[s] # NoAccount, NEW b \in Accounts,
         b.password \in {account[s].password, None}, account' = [account EXCEPT ![s] = b]
  PROVE  Keeps(account, account') /\ account' \in [Staff -> Accounts \cup {NoAccount}]
<1>1. account' \in [Staff -> Accounts \cup {NoAccount}] /\ b # NoAccount
  BY AccountsDiffer DEF OpsInv, OpsTypeOK
<1> QED BY <1>1 DEF Keeps, OpsInv, OpsTypeOK

LEMMA WriteDisabledKeeps ==
  ASSUME OpsInv, NEW h \in Desk, WriteDisabled(h)
  PROVE  OpsInv'
<1> DEFINE s == act[h].target
           b == [account[s] EXCEPT !.disabled = act[h].disable]
<1>1. act[h] \in Acts /\ s \in Staff /\ account[s] # NoAccount
  <2>1. At(h, "setAgentDisabled", "write")
    BY DEF WriteDisabled
  <2> QED BY <2>1, ActOf
<1>2. account[s] \in Accounts
  BY <1>1 DEF OpsInv, OpsTypeOK
<1>3. b \in Accounts /\ b.password = account[s].password
  BY <1>1, <1>2 DEF Accounts, Acts
<1>4. account' = [account EXCEPT ![s] = b]
  BY DEF WriteDisabled
<1> HIDE DEF s, b
<1>5. Keeps(account, account') /\ account' \in [Staff -> Accounts \cup {NoAccount}]
  BY <1>1, <1>3, <1>4, AccountKeeps
<1>6. act' = [act EXCEPT ![h] = NoAct] /\ ActInv(NoAct, account') /\ UNCHANGED <<perms, calls, invited>>
  BY DEF WriteDisabled, Finish, Become, ActInv
<1> QED BY <1>5, <1>6, OpsKeeps DEF OpsInv, OpsTypeOK

LEMMA OwnPasswordKeeps ==
  ASSUME OpsInv, NEW h \in Desk, OwnPassword(h)
  PROVE  OpsInv'
<1> DEFINE s == act[h].target
           b == [account[s] EXCEPT !.mustChangePassword = FALSE, !.password = None]
<1>1. s \in Staff /\ account[s] # NoAccount
  BY ActOf DEF OwnPassword
<1>2. account[s] \in Accounts
  BY <1>1 DEF OpsInv, OpsTypeOK
<1>3. b \in Accounts /\ b.password = None
  BY <1>2 DEF Accounts
<1>4. account' = [account EXCEPT ![s] = b]
  BY DEF OwnPassword
<1> HIDE DEF s, b
<1>5. Keeps(account, account') /\ account' \in [Staff -> Accounts \cup {NoAccount}]
  BY <1>1, <1>3, <1>4, AccountKeeps
<1>6. act' = [act EXCEPT ![h] = NoAct] /\ ActInv(NoAct, account') /\ UNCHANGED <<perms, calls, invited>>
  BY DEF OwnPassword, Finish, Become, ActInv
<1> QED BY <1>5, <1>6, OpsKeeps DEF OpsInv, OpsTypeOK

LEMMA ForgotPasswordKeeps ==
  ASSUME OpsInv, NEW s \in Staff, ForgotPassword(s)
  PROVE  OpsInv'
<1> DEFINE b == [account[s] EXCEPT !.password = None]
<1>1. account[s] # NoAccount /\ account' = [account EXCEPT ![s] = b]
  BY DEF ForgotPassword, SignedIn, Known
<1>2. account[s] \in Accounts
  BY <1>1 DEF OpsInv, OpsTypeOK
<1>3. b \in Accounts /\ b.password = None
  BY <1>2 DEF Accounts
<1> HIDE DEF b
<1>4. Keeps(account, account') /\ account' \in [Staff -> Accounts \cup {NoAccount}]
  BY <1>1, <1>3, AccountKeeps
<1>5. UNCHANGED <<perms, act, calls, invited>>
  BY DEF ForgotPassword
<1>6. ASSUME NEW h \in Desk PROVE ActInv(act[h], account')
  BY <1>4, ActKeeps DEF OpsInv
<1>7. ASSUME NEW m \in invited PROVE Invites(account', m.to, m.password)
  <2>1. m.to \in Staff /\ Invites(account, m.to, m.password)
    BY DEF OpsInv, OpsTypeOK
  <2> QED BY <1>4, <2>1, InvitesKeeps
<1> QED BY <1>4, <1>5, <1>6, <1>7 DEF OpsInv, OpsTypeOK

LEMMA OpsStepInv == OpsInv /\ [OpsNext]_opsVars => OpsInv'
<1> SUFFICES ASSUME OpsInv, [OpsNext]_opsVars PROVE OpsInv'
  OBVIOUS
<1>1. ASSUME NEW h \in Desk, OpsContinue(h) PROVE OpsInv'
  BY <1>1, ChecksKeep, RolesKeep, InsertAgentKeeps, MailInvitationKeeps, WriteDisabledKeeps,
     OwnPasswordKeeps DEF OpsContinue
<1>2. ASSUME NEW h \in Desk, ActDies(h) PROVE OpsInv'
  BY <1>2, FinishKeeps DEF ActDies
<1>3. CASE UNCHANGED opsVars
  BY <1>3 DEF opsVars, OpsInv, OpsTypeOK
<1> QED BY <1>1, <1>2, <1>3, OpsCallKeeps, ForgotPasswordKeeps DEF OpsNext

(* An invitation that was mailed is good for the account it is about       *)
(* (createAgent).                                                          *)
THEOREM InvitationsStayGood == OpsSpec => []InvitationsFit
<1>1. OpsInv => InvitationsFit
  BY DEF OpsInv, Invites, InvitationsFit, Known
<1> QED BY <1>1, OpsInitInv, OpsStepInv, PTL DEF OpsSpec

(* Who manages accounts, as a function of accounts and roles.              *)
Manages(ac, pm, s) ==
  /\ ac[s] # NoAccount /\ ~ac[s].disabled
  /\ \/ ac[s].role = "legacy admin"
     \/ /\ ac[s].role \notin {"legacy admin", "legacy agent"}
        /\ "agents.invite" \in pm[ac[s].role]

LEMMA ManagersAre ==
  /\ Managers  = {s \in Staff : Manages(account, perms, s)}
  /\ Managers' = {s \in Staff : Manages(account', perms', s)}
<1>1. "agents.invite" \in Permissions /\ "agents.invite" \notin {"catalog"}
  BY DEF Permissions
<1>2. ASSUME NEW s \in Staff
      PROVE  SignedIn(s) /\ "agents.invite" \in Held(s) <=> Manages(account, perms, s)
  BY <1>1 DEF SignedIn, Held, Known, Manages
<1>3. ASSUME NEW s \in Staff
      PROVE  (SignedIn(s) /\ "agents.invite" \in Held(s))' <=> Manages(account', perms', s)
  BY <1>1 DEF SignedIn, Held, Known, Manages
<1>4. Managers = {s \in Staff : Manages(account, perms, s)}
  BY <1>2 DEF Managers
<1>5. Managers' = {s \in Staff : Manages(account', perms', s)}
  BY <1>3 DEF Managers
<1> QED BY <1>4, <1>5

(* Steps that leave every manager one.                                     *)
LEMMA ManagersStay ==
  ASSUME OpsInv, NEW s \in Staff, Manages(account, perms, s),
         \/ UNCHANGED account
         \/ account'[s] = account[s]
         \/ /\ account'[s] # NoAccount /\ account'[s].role = account[s].role
            /\ account'[s].disabled = account[s].disabled,
         UNCHANGED perms
  PROVE  Manages(account', perms', s)
BY DEF Manages

LEMMA GrantTakes ==
  ASSUME OpsInv, NEW s \in Staff, Manages(account, perms, s), ~Manages(account', perms', s),
         NEW h \in Desk, WriteGrant(h)
  PROVE  account[s].role \notin {"admin", "legacy admin"}
<1>1. UNCHANGED account
  BY DEF WriteGrant
<1>2. account[s].role # "legacy admin"
  BY <1>1 DEF Manages
<1>3. perms'["admin"] = Permissions
  BY RolesKeep DEF OpsInv
<1>4. "agents.invite" \in Permissions
  BY DEF Permissions
<1>5. account[s].role # "admin"
  BY <1>1, <1>3, <1>4 DEF Manages
<1> QED BY <1>2, <1>5

LEMMA DisablingTakes ==
  ASSUME OpsInv, NEW s \in Staff, Manages(account, perms, s), ~Manages(account', perms', s),
         NEW h \in Desk, WriteDisabled(h)
  PROVE  act[h].target = s
<1>1. UNCHANGED perms
  BY DEF WriteDisabled
<1>2. CASE act[h].target # s
  <2>1. account'[s] = account[s]
    BY <1>2 DEF WriteDisabled, OpsInv, OpsTypeOK
  <2> QED BY <1>1, <2>1, ManagersStay
<1> QED BY <1>2

(* Nothing else takes the power over accounts from anybody.                *)
LEMMA NothingElseTakes ==
  ASSUME OpsInv, OpsNext, NEW s \in Staff, Manages(account, perms, s),
         ~Manages(account', perms', s)
  PROVE  \E h \in Desk : WriteGrant(h) \/ WriteDisabled(h)
<1>1. account[s] \in Accounts
  BY DEF Manages, OpsInv, OpsTypeOK
<1>2. ASSUME NEW h \in Desk, InsertRole(h) PROVE FALSE
  <2>1. UNCHANGED account
    BY <1>2 DEF InsertRole
  <2>2. CASE account[s].role = "legacy admin"
    BY <2>1, <2>2 DEF Manages
  <2>3. CASE account[s].role # "legacy admin"
    <3>1. "agents.invite" \notin NoRole
      BY DEF NoRole
    <3>2. perms[account[s].role] # NoRole /\ account[s].role \in Roles
      BY <1>1, <2>3, <3>1 DEF Manages, Accounts
    <3>3. perms'[account[s].role] = perms[account[s].role]
      BY <1>2, <3>2 DEF InsertRole, OpsInv, OpsTypeOK
    <3> QED BY <2>1, <2>3, <3>3 DEF Manages
  <2> QED BY <2>2, <2>3
<1>3. ASSUME NEW h \in Desk, InsertAgent(h) PROVE FALSE
  <2>1. account'[s] = account[s] /\ UNCHANGED perms
    BY <1>1, <1>3 DEF InsertAgent, Known, Manages, OpsInv, OpsTypeOK
  <2> QED BY <2>1, ManagersStay
<1>4. ASSUME NEW h \in Desk, OwnPassword(h) PROVE FALSE
  <2> DEFINE t == act[h].target
             b == [account[t] EXCEPT !.mustChangePassword = FALSE, !.password = None]
  <2>1. account' = [account EXCEPT ![t] = b] /\ UNCHANGED perms
    BY <1>4 DEF OwnPassword
  <2>2. t = s => b # NoAccount /\ b.role = account[s].role /\ b.disabled = account[s].disabled
    <3>1. ASSUME t = s PROVE b \in Accounts /\ b.role = account[s].role /\ b.disabled = account[s].disabled
      BY <1>1, <3>1 DEF Accounts
    <3> QED BY <3>1, AccountsDiffer
  <2> HIDE DEF b, t
  <2>3. account'[s] = IF t = s THEN b ELSE account[s]
    BY <2>1 DEF OpsInv, OpsTypeOK
  <2> QED BY <2>1, <2>2, <2>3, ManagersStay
<1>5. ASSUME NEW t \in Staff, ForgotPassword(t) PROVE FALSE
  <2> DEFINE b == [account[t] EXCEPT !.password = None]
  <2>1. account' = [account EXCEPT ![t] = b] /\ UNCHANGED perms
    BY <1>5 DEF ForgotPassword
  <2>2. t = s => b # NoAccount /\ b.role = account[s].role /\ b.disabled = account[s].disabled
    <3>1. ASSUME t = s PROVE b \in Accounts /\ b.role = account[s].role /\ b.disabled = account[s].disabled
      BY <1>1, <3>1 DEF Accounts
    <3> QED BY <3>1, AccountsDiffer
  <2> HIDE DEF b
  <2>3. account'[s] = IF t = s THEN b ELSE account[s]
    BY <2>1 DEF OpsInv, OpsTypeOK
  <2> QED BY <2>1, <2>2, <2>3, ManagersStay
<1>6. ASSUME UNCHANGED <<perms, account>> PROVE FALSE
  BY <1>6, ManagersStay
<1>7. ASSUME NEW h \in Desk, OpsCall(h) PROVE UNCHANGED <<perms, account>>
  BY <1>7 DEF OpsCall, CreateRole, UpdateRole, CreateAgent, SetAgentDisabled, CompleteOpsSetup, Begin
<1>8. ASSUME NEW h \in Desk,
              \/ CheckSlug(h) \/ CheckGrant(h) \/ CheckAddress(h) \/ CheckTarget(h)
              \/ MailInvitation(h) \/ ActDies(h)
       PROVE  UNCHANGED <<perms, account>>
  BY <1>8 DEF CheckSlug, CheckGrant, CheckAddress, CheckTarget, Check, MailInvitation, ActDies
<1> QED BY <1>2, <1>3, <1>4, <1>5, <1>6, <1>7, <1>8 DEF OpsNext, OpsContinue

(* Only an edit of roles leaves nobody to manage accounts, and then no     *)
(* administrator was among them; or a request whose caller had lost that   *)
(* power after the guards let it pass (setAgentDisabled).                  *)
THEOREM DisablingKeepsSomebody == OpsSpec => DisablingLeavesSomebody
<1> DEFINE Lost ==
      \E h \in Desk :
         \/ /\ At(h, "updateRole", "write")
            /\ \A s \in Managers : account[s].role \notin {"admin", "legacy admin"}
         \/ At(h, "setAgentDisabled", "write") /\ act[h].actor \notin Managers
<1>1. ASSUME OpsInv, [OpsNext]_opsVars, Managers # {}, Managers' = {} PROVE Lost
  <2>1. PICK s \in Staff : Manages(account, perms, s)
    BY <1>1, ManagersAre
  <2>2. \A t \in Staff : ~Manages(account', perms', t)
    BY <1>1, ManagersAre
  <2>3. OpsNext
    <3>1. CASE UNCHANGED opsVars
      BY <1>1, <2>1, <2>2, <3>1, ManagersStay DEF opsVars
    <3> QED BY <1>1, <3>1
  <2>4. PICK h \in Desk : WriteGrant(h) \/ WriteDisabled(h)
    BY <1>1, <2>1, <2>2, <2>3, NothingElseTakes
  <2>5. CASE WriteGrant(h)
    <3>1. ASSUME NEW t \in Staff, Manages(account, perms, t)
          PROVE  account[t].role \notin {"admin", "legacy admin"}
      BY <1>1, <2>2, <2>5, <3>1, GrantTakes
    <3>2. At(h, "updateRole", "write")
      BY <2>5 DEF WriteGrant
    <3> QED BY <3>1, <3>2, ManagersAre
  <2>6. CASE WriteDisabled(h)
    <3>1. At(h, "setAgentDisabled", "write")
      BY <2>6 DEF WriteDisabled
    <3>2. act[h].target \in Staff /\ act[h].actor # act[h].target
      BY <1>1, <3>1, ActOf
    <3>3. ASSUME Manages(account, perms, act[h].actor), act[h].actor \in Staff PROVE FALSE
      BY <1>1, <2>2, <2>6, <3>2, <3>3, DisablingTakes
    <3> QED BY <3>1, <3>3, ManagersAre
  <2> QED BY <2>4, <2>5, <2>6
<1> QED BY <1>1, OpsInitInv, OpsStepInv, PTL DEF OpsSpec, DisablingLeavesSomebody

-----------------------------------------------------------------------------
(* MailQueue.                                                              *)

(* Mail m is in list q, in outbox o, or popped by one of the calls dr.     *)
IsOnItsWay(q, o, dr, m) ==
  (\E i \in 1..Len(q) : q[i] = m) \/ m \in o \/ \E d \in Drains : dr[d] = m

(* A mail on its way is in one place only, and was not sent yet.           *)
OnePlace(q, o, dr) ==
  /\ \A i, j \in 1..Len(q) : q[i] = q[j] => i = j
  /\ \A d, e \in Drains : dr[d] = dr[e] /\ dr[d] # NoMail => d = e
  /\ \A i \in 1..Len(q) : q[i] \notin o /\ \A d \in Drains : dr[d] # q[i]
  /\ \A d \in Drains : dr[d] \notin o

PlacesInv ==
  /\ OnePlace(queue, outbox, drain)
  /\ \A m \in OnTheWay : m \in accepted /\ copies[m] = 0
  /\ \A m \in Mails : m \notin accepted => copies[m] = 0

MailInv == MailTypeOK /\ PlacesInv

LEMMA WayIs ==
  ASSUME NEW q \in Seq(Mails), NEW o \in SUBSET Mails, NEW dr \in [Drains -> Mails \cup {NoMail}]
  PROVE  Range(q) \cup o \cup (Range(dr) \ {NoMail}) = {m \in Mails : IsOnItsWay(q, o, dr, m)}
<1>1. Range(q) = {q[i] : i \in 1..Len(q)} /\ \A i \in 1..Len(q) : q[i] \in Mails
  BY DEF Range
<1>2. Range(dr) = {dr[d] : d \in Drains} /\ \A d \in Drains : dr[d] \in Mails \cup {NoMail}
  BY DEF Range
<1>3. \A m \in Mails : m \in Range(q) <=> \E i \in 1..Len(q) : q[i] = m
  BY <1>1
<1>4. \A m \in Mails : m \in Range(dr) \ {NoMail} <=> \E d \in Drains : dr[d] = m
  BY <1>2, MailAssumption
<1>5. Range(q) \cup o \cup (Range(dr) \ {NoMail}) \subseteq Mails
  BY <1>1, <1>2
<1> QED BY <1>3, <1>4, <1>5 DEF IsOnItsWay

LEMMA OnTheWayIs ==
  /\ MailTypeOK => OnTheWay = {m \in Mails : IsOnItsWay(queue, outbox, drain, m)}
  /\ MailTypeOK' => OnTheWay' = {m \in Mails : IsOnItsWay(queue', outbox', drain', m)}
<1>1. MailTypeOK => OnTheWay = {m \in Mails : IsOnItsWay(queue, outbox, drain, m)}
  BY WayIs DEF OnTheWay, MailTypeOK
<1>2. MailTypeOK' => OnTheWay' = {m \in Mails : IsOnItsWay(queue', outbox', drain', m)}
  BY WayIs DEF OnTheWay, MailTypeOK
<1> QED BY <1>1, <1>2

LEMMA MailInitInv == MailInit => MailInv /\ Delivery!Init
<1> SUFFICES ASSUME MailInit PROVE MailInv /\ Delivery!Init
  OBVIOUS
<1>1. MailTypeOK
  BY DEF MailInit, MailTypeOK
<1>2. Len(queue) = 0 /\ outbox = {} /\ \A d \in Drains : drain[d] = NoMail
  BY DEF MailInit
<1>3. OnTheWay = {}
  BY <1>1, <1>2, OnTheWayIs, MailAssumption DEF IsOnItsWay
<1>4. OnePlace(queue, outbox, drain)
  BY <1>2 DEF OnePlace
<1> QED BY <1>1, <1>3, <1>4 DEF MailInit, MailInv, PlacesInv, Delivery!Init

(* A mail that is enqueued is new to the queue.                            *)
LEMMA EnqueueKeeps ==
  ASSUME MailInv, NEW m \in Mails, m \notin accepted, Enqueue(m)
  PROVE  MailInv' /\ Delivery!Accept(m)
<1>1. MailTypeOK'
  <2>1. Append(queue, m) \in Seq(Mails)
    BY DEF MailInv, MailTypeOK
  <2> QED BY <2>1 DEF Enqueue, MailInv, MailTypeOK
<1>2. m \notin OnTheWay
  BY DEF MailInv, PlacesInv
<1>3. ~IsOnItsWay(queue, outbox, drain, m)
  BY <1>2, OnTheWayIs DEF MailInv
<1>4. queue \in Seq(Mails) /\ Len(queue) \in Nat
  BY DEF MailInv, MailTypeOK
<1>5. /\ OnePlace(queue', outbox', drain')
      /\ \A k \in Mails : IsOnItsWay(queue', outbox', drain', k)
                            <=> IsOnItsWay(queue, outbox, drain, k) \/ k = m
  <2>1. CASE redis
    <3>1. queue' = Append(queue, m) /\ outbox' = outbox /\ drain' = drain
      BY <2>1 DEF Enqueue
    <3>2. /\ Len(queue') = Len(queue) + 1 /\ queue'[Len(queue) + 1] = m
          /\ \A i \in 1..Len(queue) : queue'[i] = queue[i]
      BY <1>4, <3>1
    <3>3. 1..Len(queue') = 1..Len(queue) \cup {Len(queue) + 1}
      BY <1>4, <3>2
    <3>4. OnePlace(queue', outbox', drain')
      BY <1>3, <3>1, <3>2, <3>3 DEF OnePlace, IsOnItsWay, MailInv, PlacesInv
    <3> QED BY <3>1, <3>2, <3>3, <3>4 DEF IsOnItsWay
  <2>2. CASE ~redis
    <3>1. queue' = queue /\ outbox' = outbox \cup {m} /\ drain' = drain
      BY <2>2 DEF Enqueue
    <3> QED BY <1>3, <3>1 DEF OnePlace, IsOnItsWay, MailInv, PlacesInv
  <2> QED BY <2>1, <2>2
<1>6. OnTheWay' = OnTheWay \cup {m}
  BY <1>1, <1>5, OnTheWayIs DEF MailInv
<1>7. accepted' = accepted \cup {m} /\ copies' = copies
  BY DEF Enqueue
<1>8. PlacesInv'
  BY <1>5, <1>6, <1>7 DEF MailInv, PlacesInv
<1> QED BY <1>1, <1>6, <1>7, <1>8 DEF MailInv, Delivery!Accept

(* A mail that is popped changes its place.                                *)
LEMMA PopKeeps ==
  ASSUME MailInv, NEW d \in Drains, Pop(d)
  PROVE  MailInv' /\ OnTheWay' = OnTheWay
<1> DEFINE m == Head(queue)
<1>1. queue \in Seq(Mails) /\ Len(queue) \in Nat /\ Len(queue) > 0 /\ m \in Mails /\ m = queue[1]
  BY DEF Pop, MailInv, MailTypeOK
<1>2. /\ queue' = Tail(queue) /\ queue' \in Seq(Mails) /\ Len(queue') = Len(queue) - 1
      /\ \A i \in 1..Len(queue') : queue'[i] = queue[i + 1]
  BY <1>1 DEF Pop
<1>3. /\ drain' = [drain EXCEPT ![d] = m] /\ drain[d] = NoMail /\ drain \in [Drains -> Mails \cup {NoMail}]
      /\ outbox' = outbox /\ accepted' = accepted /\ copies' = copies /\ redis' = redis
  BY DEF Pop, MailInv, MailTypeOK
<1> HIDE DEF m
<1>4. drain'[d] = m /\ \A e \in Drains : e # d => drain'[e] = drain[e]
  BY <1>3
<1>5. MailTypeOK'
  BY <1>1, <1>2, <1>3 DEF MailInv, MailTypeOK
<1>6. \A i \in 1..Len(queue') : i \in 1..Len(queue) /\ i + 1 \in 1..Len(queue) /\ i + 1 # 1
  BY <1>1, <1>2
<1>7. 1 \in 1..Len(queue)
  BY <1>1
<1>8. m # NoMail
  BY <1>1, MailAssumption
<1>9. OnePlace(queue, outbox, drain)
  BY DEF MailInv, PlacesInv
<1>10. \A i \in 1..Len(queue') : queue'[i] # m
  BY <1>1, <1>2, <1>6, <1>7, <1>9 DEF OnePlace
<1>11. OnePlace(queue', outbox', drain')
  <2>1. \A i, j \in 1..Len(queue') : queue'[i] = queue'[j] => i = j
    BY <1>1, <1>2, <1>6, <1>9 DEF OnePlace
  <2>2. \A e, f \in Drains : drain'[e] = drain'[f] /\ drain'[e] # NoMail => e = f
    BY <1>1, <1>4, <1>7, <1>9 DEF OnePlace
  <2>3. \A i \in 1..Len(queue') : queue'[i] \notin outbox' /\ \A e \in Drains : drain'[e] # queue'[i]
    BY <1>2, <1>3, <1>4, <1>6, <1>9, <1>10 DEF OnePlace
  <2>4. \A e \in Drains : drain'[e] \notin outbox'
    BY <1>1, <1>3, <1>4, <1>7, <1>9 DEF OnePlace
  <2> QED BY <2>1, <2>2, <2>3, <2>4 DEF OnePlace
<1>12. ASSUME NEW k \in Mails
       PROVE  IsOnItsWay(queue', outbox', drain', k) <=> IsOnItsWay(queue, outbox, drain, k)
  <2>1. (\E i \in 1..Len(queue) : queue[i] = k) <=> k = m \/ \E i \in 1..Len(queue') : queue'[i] = k
    <3>1. ASSUME NEW i \in 1..Len(queue), i # 1 PROVE i - 1 \in 1..Len(queue') /\ queue'[i - 1] = queue[i]
      BY <1>1, <1>2, <3>1
    <3>2. ASSUME NEW i \in 1..Len(queue), queue[i] = k, k # m PROVE \E j \in 1..Len(queue') : queue'[j] = k
      <4>1. i # 1
        BY <1>1, <3>2
      <4> QED BY <3>1, <3>2, <4>1
    <3>3. ASSUME NEW j \in 1..Len(queue'), queue'[j] = k PROVE \E i \in 1..Len(queue) : queue[i] = k
      BY <1>2, <1>6, <3>3
    <3>4. k = m => \E i \in 1..Len(queue) : queue[i] = k
      BY <1>1, <1>7
    <3> QED BY <3>2, <3>3, <3>4
  <2>2. (\E e \in Drains : drain'[e] = k) <=> k = m \/ \E e \in Drains : drain[e] = k
    BY <1>3, <1>4, MailAssumption
  <2> QED BY <1>3, <2>1, <2>2 DEF IsOnItsWay
<1>13. OnTheWay' = OnTheWay
  BY <1>5, <1>12, OnTheWayIs DEF MailInv
<1> QED BY <1>3, <1>5, <1>11, <1>13 DEF MailInv, PlacesInv

(* Mails that are given up.                                                *)
LEMMA DropKeeps ==
  ASSUME MailInv, MailTypeOK', OnePlace(queue', outbox', drain'), OnTheWay' \subseteq OnTheWay,
         UNCHANGED <<accepted, copies>>
  PROVE  MailInv' /\ Delivery!Drop
BY DEF MailInv, PlacesInv, Delivery!Drop

(* A mail that is sent, or refused.                                        *)
LEMMA SendKeeps ==
  ASSUME MailInv, NEW m \in Mails, m \in OnTheWay, MailTypeOK', OnePlace(queue', outbox', drain'),
         OnTheWay' = OnTheWay \ {m}, UNCHANGED accepted, NEW taken \in BOOLEAN, Send(m, taken)
  PROVE  MailInv' /\ (Delivery!Drop \/ Delivery!Deliver(m))
<1>1. CASE taken
  <2>1. copies[m] = 0 /\ m \in accepted
    BY DEF MailInv, PlacesInv
  <2>2. copies' = [copies EXCEPT ![m] = 1]
    BY <1>1, <2>1 DEF Send
  <2>3. \A k \in Mails : k # m => copies'[k] = copies[k]
    BY <2>2 DEF MailInv, MailTypeOK
  <2>4. OnTheWay \subseteq Mails
    BY OnTheWayIs DEF MailInv
  <2>5. PlacesInv'
    BY <2>1, <2>3, <2>4 DEF MailInv, PlacesInv
  <2> QED BY <2>2, <2>5 DEF MailInv, Delivery!Deliver
<1>2. CASE ~taken
  BY <1>2, DropKeeps DEF Send
<1> QED BY <1>1, <1>2

LEMMA SentTypeOK ==
  ASSUME MailTypeOK, NEW m \in Mails, NEW taken \in BOOLEAN, Send(m, taken)
  PROVE  copies' \in [Mails -> Nat]
BY DEF MailTypeOK, Send

(* A call of drainOnce that ends, one way or the other.                    *)
LEMMA DrainEnds ==
  ASSUME MailInv, NEW d \in Drains, drain[d] # NoMail, drain' = [drain EXCEPT ![d] = NoMail],
         UNCHANGED <<redis, queue, outbox, accepted>>, copies' \in [Mails -> Nat]
  PROVE  /\ MailTypeOK' /\ OnePlace(queue', outbox', drain')
         /\ drain[d] \in Mails /\ drain[d] \in OnTheWay
         /\ OnTheWay' = OnTheWay \ {drain[d]}
<1>1. drain[d] \in Mails /\ drain'[d] = NoMail /\ \A e \in Drains : e # d => drain'[e] = drain[e]
  BY DEF MailInv, MailTypeOK
<1>2. MailTypeOK'
  BY DEF MailInv, MailTypeOK
<1>3. OnePlace(queue, outbox, drain)
  BY DEF MailInv, PlacesInv
<1>4. NoMail \notin outbox /\ \A i \in 1..Len(queue) : queue[i] # NoMail
  BY MailAssumption DEF MailInv, MailTypeOK
<1>5. OnePlace(queue', outbox', drain')
  BY <1>1, <1>3, <1>4 DEF OnePlace
<1>6. IsOnItsWay(queue, outbox, drain, drain[d])
  BY DEF IsOnItsWay
<1>7. ASSUME NEW k \in Mails
      PROVE  IsOnItsWay(queue', outbox', drain', k)
               <=> IsOnItsWay(queue, outbox, drain, k) /\ k # drain[d]
  <2>1. k # NoMail
    BY MailAssumption
  <2> QED BY <1>1, <1>3, <2>1 DEF OnePlace, IsOnItsWay
<1> QED BY <1>1, <1>2, <1>5, <1>6, <1>7, OnTheWayIs DEF MailInv

(* Mails that leave the outbox.                                            *)
LEMMA OutboxShrinks ==
  ASSUME MailInv, NEW o, outbox' = outbox \ o,
         UNCHANGED <<redis, queue, drain, accepted>>, copies' \in [Mails -> Nat]
  PROVE  /\ MailTypeOK' /\ OnePlace(queue', outbox', drain')
         /\ outbox \subseteq OnTheWay
         /\ OnTheWay' = OnTheWay \ (outbox \cap o)
<1>1. MailTypeOK'
  BY DEF MailInv, MailTypeOK
<1>2. OnePlace(queue, outbox, drain)
  BY DEF MailInv, PlacesInv
<1>3. OnePlace(queue', outbox', drain')
  BY <1>2 DEF OnePlace
<1>4. ASSUME NEW k \in Mails
      PROVE  IsOnItsWay(queue', outbox', drain', k)
               <=> IsOnItsWay(queue, outbox, drain, k) /\ k \notin outbox \cap o
  BY <1>2 DEF OnePlace, IsOnItsWay
<1>5. outbox \subseteq Mails /\ \A k \in outbox : IsOnItsWay(queue, outbox, drain, k)
  BY DEF IsOnItsWay, MailInv, MailTypeOK
<1> QED BY <1>1, <1>3, <1>4, <1>5, OnTheWayIs DEF MailInv

LEMMA MailStep ==
  MailInv /\ [MailNext]_mailVars =>
    MailInv' /\ (Delivery!Next \/ UNCHANGED <<accepted, OnTheWay, copies>>)
<1> SUFFICES ASSUME MailInv, [MailNext]_mailVars
             PROVE  MailInv' /\ (Delivery!Next \/ UNCHANGED <<accepted, OnTheWay, copies>>)
  OBVIOUS
<1>1. CASE UNCHANGED mailVars
  BY <1>1 DEF mailVars, MailInv, MailTypeOK, PlacesInv, OnTheWay
<1>2. ASSUME NEW m \in Mails, m \notin accepted, Enqueue(m) PROVE MailInv' /\ Delivery!Next
  BY <1>2, EnqueueKeeps DEF Delivery!Next
<1>3. ASSUME NEW m \in Mails, SendInline(m) PROVE MailInv' /\ Delivery!Next
  <2>1. PICK taken \in BOOLEAN : Send(m, taken)
    BY <1>3 DEF SendInline
  <2>2. m \in outbox /\ outbox' = outbox \ {m} /\ UNCHANGED <<redis, queue, drain, accepted>>
    BY <1>3 DEF SendInline
  <2>3. copies' \in [Mails -> Nat]
    BY <2>1, SentTypeOK DEF MailInv
  <2>4. outbox \cap {m} = {m}
    BY <2>2
  <2>5. MailTypeOK' /\ OnePlace(queue', outbox', drain') /\ m \in OnTheWay /\ OnTheWay' = OnTheWay \ {m}
    <3>1. /\ MailTypeOK' /\ OnePlace(queue', outbox', drain') /\ outbox \subseteq OnTheWay
          /\ OnTheWay' = OnTheWay \ (outbox \cap {m})
      BY <2>2, <2>3, OutboxShrinks
    <3> QED BY <2>2, <2>4, <3>1
  <2> QED BY <2>1, <2>2, <2>5, SendKeeps DEF Delivery!Next
<1>4. ASSUME NEW d \in Drains, Pop(d) PROVE MailInv' /\ UNCHANGED <<accepted, OnTheWay, copies>>
  BY <1>4, PopKeeps DEF Pop
<1>5. ASSUME NEW d \in Drains, SendPopped(d) PROVE MailInv' /\ Delivery!Next
  <2>1. PICK taken \in BOOLEAN : Send(drain[d], taken)
    BY <1>5 DEF SendPopped
  <2>2. drain[d] # NoMail /\ drain' = [drain EXCEPT ![d] = NoMail] /\ UNCHANGED <<redis, queue, outbox, accepted>>
    BY <1>5 DEF SendPopped
  <2>3. drain[d] \in Mails
    BY <2>2 DEF MailInv, MailTypeOK
  <2>4. copies' \in [Mails -> Nat]
    BY <2>1, <2>3, SentTypeOK DEF MailInv
  <2> QED BY <2>1, <2>2, <2>3, <2>4, DrainEnds, SendKeeps DEF Delivery!Next
<1>6. ASSUME NEW d \in Drains, DrainDies(d) PROVE MailInv' /\ Delivery!Next
  <2>1. /\ drain[d] # NoMail /\ drain' = [drain EXCEPT ![d] = NoMail]
        /\ UNCHANGED <<redis, queue, outbox, accepted, copies>>
    BY <1>6 DEF DrainDies
  <2>2. copies' \in [Mails -> Nat]
    BY <2>1 DEF MailInv, MailTypeOK
  <2> QED BY <2>1, <2>2, DrainEnds, DropKeeps DEF Delivery!Next
<1>7. CASE OutboxDies
  <2>1. outbox' = outbox \ outbox /\ UNCHANGED <<redis, queue, drain, accepted, copies>>
    BY <1>7 DEF OutboxDies
  <2>2. copies' \in [Mails -> Nat]
    BY <2>1 DEF MailInv, MailTypeOK
  <2> QED BY <2>1, <2>2, OutboxShrinks, DropKeeps DEF Delivery!Next
<1> QED BY <1>1, <1>2, <1>3, <1>4, <1>5, <1>6, <1>7 DEF MailNext

(* Every step of the mail queue is one that callers of enqueue are         *)
(* promised: no mail is handed over twice, or without having been enqueued *)
(* (drainOnce).  That every mail is decided in the end is left to TLC.     *)
THEOREM QueueIsADelivery ==
  MailSpec => Delivery!Init /\ [][Delivery!Next]_<<accepted, OnTheWay, copies>>
<1>1. MailInit => MailInv /\ Delivery!Init
  BY MailInitInv
<1> QED BY <1>1, MailStep, PTL DEF MailSpec

-----------------------------------------------------------------------------
(* The four side by side.                                                  *)

LEMMA PartsMove ==
  [Next]_vars => /\ [MailNext]_mailVars /\ [UploadNext]_uploadVars
                 /\ [PricingNext]_pricingVars /\ [OpsNext]_opsVars
BY DEF Next, vars

(* The parts of the back office share no state: whichever of them moves,   *)
(* the others stand still, so that each keeps its own specification, and   *)
(* what is proved of a part holds beside the others.                       *)
THEOREM PartsKeepApart ==
  Spec => /\ MailInit /\ [][MailNext]_mailVars
          /\ UploadSpec /\ PricingSpec /\ OpsSpec
<1>1. Init => MailInit /\ UploadInit /\ PricingInit /\ OpsInit
  BY DEF Init
<1> QED BY <1>1, PartsMove, PTL DEF Spec, UploadSpec, PricingSpec, OpsSpec

(* redis, row, account and the others of the four parts keep their types   *)
(* (MCBackOffice.TypeOK).                                                  *)
THEOREM BackOfficeTyped == Spec => []TypeOK
<1>1. MailInv /\ UploadInv /\ PricingInv /\ OpsInv => TypeOK
  BY DEF MailInv, UploadInv, PricingInv, OpsInv, TypeOK
<1>2. Init => MailInv /\ UploadInv /\ PricingInv /\ OpsInv
  BY MailInitInv, UploadInitInv, PricingInitInv, OpsInitInv DEF Init
<1> QED
  BY <1>1, <1>2, PartsMove, MailStep, UploadStepInv, PricingStepInv, OpsStepInv, PTL DEF Spec

(* So the four parts are safe together: uploads keep their allowance,      *)
(* prices keep the order of the wares, settings survive what is            *)
(* entered beside them, invitations are good for their account, somebody   *)
(* can still manage accounts, and every mail is handed over at most once.  *)
THEOREM BackOfficeIsSafe ==
  Spec => /\ [](QuotaBounded /\ DearerWaresCostMore /\ InvitationsFit)
          /\ SettingsSurvive /\ DisablingLeavesSomebody
          /\ Delivery!Init /\ [][Delivery!Next]_<<accepted, OnTheWay, copies>>
<1>1. MailInit => MailInv /\ Delivery!Init
  BY MailInitInv
<1>2. MailInit /\ [][MailNext]_mailVars
        => Delivery!Init /\ [][Delivery!Next]_<<accepted, OnTheWay, copies>>
  BY <1>1, MailStep, PTL
<1> QED
  BY <1>2, PartsKeepApart, AllowanceHolds, PricesKeepTheOrder, SettingsStay,
     InvitationsStayGood, DisablingKeepsSomebody, PTL
=============================================================================
