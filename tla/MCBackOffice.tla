---------------------------- MODULE MCBackOffice ----------------------------
(***************************************************************************)
(* Small instances of four parts of the back office: mail, uploads,        *)
(* pricing and access.  They share no state, so no step of one is seen by  *)
(* another; each behaviour here follows one of them, the part chosen at    *)
(* the start.                                                              *)
(***************************************************************************)
EXTENDS MailQueue, Uploads, Pricing, OpsAccess

VARIABLE part

vars == <<part, mailVars, uploadVars, pricingVars, opsVars>>

\* A part that stays still starts where it starts most simply.
AtRest ==
  /\ part # "mail"    => ~redis
  /\ part # "uploads" => ~shared /\ place = "bucket"
  /\ part # "pricing" => row = Nothing
  /\ part # "access"  => account = [s \in Staff |-> Account("admin")]

Init ==
  /\ part \in {"mail", "uploads", "pricing", "access"}
  /\ MailInit /\ UploadInit /\ PricingInit /\ OpsInit
  /\ AtRest

Next ==
  /\ UNCHANGED part
  /\ \/ part = "mail"    /\ MailNext    /\ UNCHANGED <<uploadVars, pricingVars, opsVars>>
     \/ part = "uploads" /\ UploadNext  /\ UNCHANGED <<mailVars, pricingVars, opsVars>>
     \/ part = "pricing" /\ PricingNext /\ UNCHANGED <<mailVars, uploadVars, opsVars>>
     \/ part = "access"  /\ OpsNext     /\ UNCHANGED <<mailVars, uploadVars, pricingVars>>

Spec == Init /\ [][Next]_vars /\ MailFairness

TypeOK == MailTypeOK /\ UploadTypeOK /\ PricingTypeOK /\ OpsTypeOK

-----------------------------------------------------------------------------
(* Values for TLC.                                                         *)

\* Fees in per cent with limits the wrong way round, and fixed ones.
Rule(mode, value, min, max) == [mode |-> mode, value |-> value, min |-> min, max |-> max]
SampleConfigs ==
  {[shippingRatePerKg |-> 120050,
    fee |-> [agentFee |-> Rule("percent", 1234, 300000, 100000),
             misc     |-> Rule("percent", 250, 50, Nothing),
             profit   |-> Rule("fixed", 777777, Nothing, 500000)]],
   [shippingRatePerKg |-> 50,
    fee |-> [agentFee |-> Rule("percent", 500, Nothing, 150000),
             misc     |-> Rule("fixed", 49, Nothing, Nothing),
             profit   |-> Rule("percent", 50, 0, 350)]]}

SampleWares == [cost : {1, 2999000, 3001100, 20000000}, grams : {335}, quantity : {1, 3}]

SampleGrants == {{"catalog"}, Permissions}
=============================================================================
