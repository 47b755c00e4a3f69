---------------------------- MODULE MCUploadPage ----------------------------
(* UploadPage with small constants for TLC: a few real headers with what   *)
(* _COL_MAP and _FIELD_KEYWORDS say of them.                               *)
EXTENDS UploadPage

Headers == {"Full Name", "name", "Mail", "Candidate CV", "Mail link", "City"}

ExactOf == [h \in Headers |-> CASE h \in {"Full Name", "name"} -> "name"
                                [] h = "Mail" -> "email"
                                [] h = "City" -> "location"
                                [] OTHER      -> None]

HintsOf == [h \in Headers |-> CASE h \in {"Full Name", "name"} -> {"name"}
                                [] h = "Mail"         -> {"email"}
                                [] h = "Candidate CV" -> {"name", "resume_url"}
                                [] h = "Mail link"    -> {"email", "resume_url"}
                                [] h = "City"         -> {"location"}]

Sheets == {<<"Full Name", "Mail", "name">>, <<"Candidate CV", "Mail link", "City">>}
=============================================================================
