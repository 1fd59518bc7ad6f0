------------------------------- MODULE Languages -------------------------------
(***************************************************************************)
(* The languages the bot knows and how a text names one                    *)
(* (handlers._parse_lang_code).  A text is known here by its first word,   *)
(* which is all that the parser looks at.                                  *)
(***************************************************************************)
CONSTANTS LANG_CODES,        \* the codes the bot knows
          LANG_NAME_TO_CODE  \* the names it knows, and their codes

\* The server default of users.target_lang.
DefaultLang == "en"

\* _parse_lang_code's None.
NoLang == "none"

ASSUME LanguageAssumption ==
  /\ DefaultLang \in LANG_CODES /\ NoLang \notin LANG_CODES
  /\ \A n \in DOMAIN LANG_NAME_TO_CODE : LANG_NAME_TO_CODE[n] \in LANG_CODES

_parse_lang_code(t) ==
  IF t \in DOMAIN LANG_NAME_TO_CODE THEN LANG_NAME_TO_CODE[t]
  ELSE IF t \in LANG_CODES THEN t ELSE NoLang
=============================================================================
