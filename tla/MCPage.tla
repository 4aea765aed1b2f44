------------------------------- MODULE MCPage -------------------------------
(***************************************************************************)
(* Small instances of Page for TLC.                                        *)
(***************************************************************************)
EXTENDS Page, TLC

CONSTANTS r1, r2, p1

Rules == [text |-> [title |-> "rules", route |-> "rules", content |-> Empty, format |-> Markdown],
          on |-> {}]
Sponsors == [text |-> [title |-> "s", route |-> "s", content |-> "text", format |-> "html"],
             on |-> {"draft", "authRequired"}]

MCRules == {Rules}
MCBoth == {Rules, Sponsors}

ApiKey == [url |-> TRUE, api_key |-> TRUE, session |-> FALSE, nonce |-> FALSE]
Cookie == [ApiKey EXCEPT !.api_key = FALSE, !.session = TRUE, !.nonce = TRUE]
NoNonce == [Cookie EXCEPT !.nonce = FALSE]

MCSecrets == {ApiKey, NoNonce}
MCApiKey == {ApiKey}

WordNames == [r \in Resources |-> NotANumber]
=============================================================================
