---------------------------- MODULE MCAssistant ----------------------------
(***************************************************************************)
(* Assistant on a small instance: a phone that sends its history, a web     *)
(* client that does not, two tenants, two terms, three messages.  The first *)
(* opens the conversation, on the phone; the second, there too, may be      *)
(* anything; the third corrects, or agrees, there or on the web.            *)
(***************************************************************************)
EXTENDS Assistant

CONSTANTS t1, t2, m6, m12

M(kind, who, term) == [kind |-> kind, who |-> who, term |-> term]
Bare(kinds) == {M(kind, None, None) : kind \in kinds}

Opening == {M("photo", t2, None), M("contract", t1, m6)}
Anything == Bare({"info", "yes", "no", "button", "ticket", "assign",
                  "payment", "remind", "upload"})
            \cup {M("detail", None, m12), M("data", t1, None), M("ask", t2, None),
                  M("pdf", t2, None)}
Ending == Bare({"yes"}) \cup {M("data", t2, None)}

On(phone, web) == [d \in Devices |-> IF d = "phone" THEN phone ELSE web]
SmallMessages == <<On(Opening, {}), On(Anything, {}),
                   On(Ending, Bare({"yes"}))>>

ASSUME MessagesAssumption ==
  \A k \in DOMAIN SmallMessages, d \in Devices : SmallMessages[k][d] \subseteq Message
=============================================================================
