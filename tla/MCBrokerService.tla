---------------------------- MODULE MCBrokerService ----------------------------
(* Small instances of the broker for TLC.                                  *)
EXTENDS BrokerService, AuditRedaction

CONSTANTS status, reveal

\* The keys: a name in pieces and in capitals, inside a longer word, with the pieces in
\* the wrong order, both spellings of one name, and a public name.
pass_WORD == <<Small("pass"), Small("_"), Capital("word")>>
API_key == <<Capital("api"), Small("-"), Small("key")>>
x_tokens == <<Small("x"), Small("."), Small("to"), Small("ken"), Small("s")>>
secretary == <<Small("secret"), Small("ary")>>
key_api == <<Small("key"), Small("_"), Small("api")>>
Authorization == <<Capital("authori"), Small("z"), Small("ation")>>
authorisation == Written(Authorisation)
name == <<Small("name")>>
Keys == {pass_WORD, API_key, x_tokens, secretary, key_api, Authorization, authorisation, name}

\* Maps of up to two keys and lists of up to two items over small maps, lists and leaves.
Items == {Leaf("v"), Map(<<>>), List(<<>>), List(<<Leaf("v"), Leaf("w")>>)}
           \cup {Map([k \in {key} |-> Leaf("v")]) : key \in {x_tokens, key_api, authorisation}}
Trees == UNION {{Map(f) : f \in [ks -> Items]} : ks \in {ks \in SUBSET Keys : Cardinality(ks) <= 2}}
           \cup {List(s) : s \in UNION {[1 .. n -> Items] : n \in 0 .. 2}}

\* What audited clients send: a secret, and nothing secret.
Keyed == Map([k \in {API_key} |-> Leaf("v")])
Plain == Map([k \in {name} |-> Leaf("v")])

\* Granted and denied invocations under claimed identities, a foreign peer, and
\* the requests that leave no record.
Ask(o, n, who, own, in) ==
  [operation |-> o, capability |-> n, caller |-> who, owner |-> own, input |-> in]
RequestsDef == { Ask("invoke", status, "other", TRUE, Keyed),
                 Ask("invoke", reveal, "local-cli", TRUE, Plain),
                 Ask("invoke", status, "local-user", FALSE, Plain),
                 Ask("check", reveal, "", TRUE, Keyed),
                 Ask("malformed", status, "", TRUE, Plain) }
InvokesDef == { Ask("invoke", status, "other", TRUE, Plain), Ask("check", status, "", TRUE, Plain) }
InputsDef == {Keyed, Plain}

\* redactMap() hides the value below every key that contains a name the documentation
\* lists, in any case and with any separators, in nested maps and lists too, and nothing
\* else; and redacting its result changes nothing (Invoke() and Write() both call it).
\* One name is excepted: 'authorisation' is documented, but the code looks for
\* 'authorization', so that a value below the documented spelling is logged.
\* It does not depend on the state; TLC looks at it before a client connects.
RedactionIsExact ==
  (\A c \in Conns : stage[c] = "free") =>
    \A t \in Trees : /\ ShowsOnlyPublic(t, redactValue(t))
                     /\ redactValue(redactValue(t)) = redactValue(t)
=============================================================================
