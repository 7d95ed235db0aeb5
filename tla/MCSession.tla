------------------------------ MODULE MCSession ------------------------------
(* Two users with a token each, one of them signed with the rotated key, and  *)
(* two pages' requests besides those of the bootstrap and the sign-in.        *)
EXTENDS Session, TLC

MCRequests == {"boot", "login", "page 1", "page 2"}
MCTokens == {"t1", "t2"}
MCTokenKey == "t1" :> "k1" @@ "t2" :> "k2"
MCTokenUser == "t1" :> "u1" @@ "t2" :> "u2"
===============================================================================
