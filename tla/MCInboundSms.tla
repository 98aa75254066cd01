---------------------------- MODULE MCInboundSms ----------------------------
(* A tenant and a vendor who send the same words, the vendor's without its *)
(* time in the provider's list, and a photo of a tenant's who is not on    *)
(* the whitelist.                                                          *)
EXTENDS InboundSms

MCFrom == [m \in Messages |->
             CASE m = "m1" -> "tenant" [] m = "m2" -> "vendor" [] OTHER -> "unlisted"]
MCBody == [m \in Messages |-> IF m = "m3" THEN "" ELSE "yes"]
=============================================================================
