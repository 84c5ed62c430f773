------------------------------- MODULE MCPhoneSync -------------------------------
(***************************************************************************)
(* Small sets of attempts and what happens around them.                    *)
(***************************************************************************)
EXTENDS PhoneSync, TLC

CONSTANTS a, b, phone, tablet

Around(shown, told, may) == [codes |-> shown, commands |-> told, messages |-> 0, may |-> may,
                             trusted |-> {}]
Peers(x, y, owner) == [peers |-> (a :> x) @@ (b :> y), device |-> (a :> phone) @@ (b :> owner)]

\* Two phones and two codes.
Pairing == Around(2, 0, {}) @@ Peers("web", "web", tablet)
\* A trusted phone connects twice; it is forgotten in between.
Returns == [Around(1, 1, {"unpair", "reconnect"}) EXCEPT !.trusted = {phone}] @@ Peers("web", "native", phone)
\* A phone is served while messages come.
Live == [Around(1, 1, {"lapse", "expire", "reject", "decline", "fail", "split", "leave"})
           EXCEPT !.messages = 2] @@ Peers("web", "none", tablet)
\* Two phones create sessions.
Creating == [Around(1, 2, {"leave"}) EXCEPT !.trusted = {phone, tablet}] @@ Peers("web", "web", tablet)
\* The native phone connects twice.
Sessions == Around(1, 1, {"leave"}) @@ Peers("native", "native", phone)
MCScenarios == {Pairing, Returns, Live, Creating, Sessions}
================================================================================
