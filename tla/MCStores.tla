------------------------------ MODULE MCStores ------------------------------
(***************************************************************************)
(* What is kept of identities, requests and attachments, for TLC: the key  *)
(* lifecycle, the http server's link to the hub, the admission of requests *)
(* and the ingestion of audit blobs.  The modules share no variable; a     *)
(* behaviour here has one part that steps, which makes a sum of their      *)
(* state spaces in place of the product.                                   *)
(***************************************************************************)
EXTENDS MCKeyLifecycle, WebLink, Admission, AuditIngest

(* p1 signs in with GitHub and posts; p2 may be a local account.           *)
StoresAuthor == [m \in {"m1", "m2"} |-> "p1"]
StoresPlans ==
    {[github |-> {"p1"}, local |-> {"p2"}, posts |-> {}, tasks |-> 2],
     [github |-> {"p1"}, local |-> {}, posts |-> {"m1", "m2"}, tasks |-> 1]}

StoresKind == "c" :> "connect" @@ "j" :> "rpc" @@ "r" :> "rest" @@ "t" :> "rest"
StoresIat == "c" :> 0 @@ "j" :> 1 @@ "r" :> 0 @@ "t" :> 1

StoresKeyOf == [g \in {"g1", "g2"} |-> "k"]
StoresAttached == "e" :> {"k"}
StoresFaultPlans == {{"break", "garble", "die", "full"}, {"overlap", "full"}}

VARIABLE part     \* the part that steps

storesVars == <<part, keysVars, webVars, admissionVars, ingestVars>>

(* What a part that does not step begins with makes no difference. *)
StoresInit ==
    /\ part \in {"keys", "web", "admission", "ingest"}
    /\ KeysInit /\ WebInit /\ AdmissionInit /\ IngestInit
    /\ part # "web" => plan = CHOOSE p \in Plans : TRUE
    /\ part # "ingest" => faults = CHOOSE f \in FaultPlans : TRUE

StoresNext ==
    /\ UNCHANGED part
    /\ \/ /\ part = "keys" /\ KeysNext
          /\ UNCHANGED <<webVars, admissionVars, ingestVars>>
       \/ /\ part = "web" /\ WebNext
          /\ UNCHANGED <<keysVars, admissionVars, ingestVars>>
       \/ /\ part = "admission" /\ AdmissionNext
          /\ UNCHANGED <<keysVars, webVars, ingestVars>>
       \/ /\ part = "ingest" /\ IngestNext
          /\ UNCHANGED <<keysVars, webVars, admissionVars>>

StoresSpec == StoresInit /\ [][StoresNext]_storesVars

(* The four parts' variables keep their types. *)
StoresTypeOK == KeysTypeOK /\ WebTypeOK /\ AdmissionTypeOK /\ IngestTypeOK
=============================================================================
