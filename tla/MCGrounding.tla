----------------------------- MODULE MCGrounding -----------------------------
(* Two organizations, four callers and five chunks. A prompt of 20 characters *)
(* takes two short blocks with their separator, or a long one cut.            *)
EXTENDS Grounding, TLC

MCCallers ==
    {[org |-> "a", role |-> r] : r \in Roles} \cup {[org |-> "b", role |-> "manager"]}
MCChunks == {"a1", "a2", "a3", "a4", "b1"}
MCOrg == "a1" :> "a" @@ "a2" :> "a" @@ "a3" :> "a" @@ "a4" :> "a" @@ "b1" :> "b"
MCLevel == "a1" :> "public" @@ "a2" :> "internal" @@ "a3" :> "confidential"
           @@ "a4" :> "restricted" @@ "b1" :> "public"
MCLength == "a1" :> 3 @@ "a2" :> 9 @@ "a3" :> 16 @@ "a4" :> 1 @@ "b1" :> 30
===============================================================================
