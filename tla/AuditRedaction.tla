----------------------------- MODULE AuditRedaction -----------------------------
(***************************************************************************)
(* What the audit log keeps of the input of a request: redactMap(),        *)
(* redactValue() and sensitiveKey() of broker.go.  JSON values are trees.  *)
(* A key is a sequence of pieces: separators, and runs of letters in small *)
(* or capital letters, cut so finely that a marker begins and ends between *)
(* two pieces wherever it occurs.                                          *)
(***************************************************************************)
EXTENDS Naturals, Sequences, FiniteSets

Leaf(x) == [kind |-> "leaf", of |-> x]
Map(f) == [kind |-> "map", of |-> f]
List(s) == [kind |-> "list", of |-> s]
Redaction == Leaf("[REDACTED]")

Small(w) == [letters |-> w, capital |-> FALSE]
Capital(w) == [letters |-> w, capital |-> TRUE]
Written(m) == [n \in DOMAIN m |-> Small(m[n])]

Separators == {"_", "-", "."}
Markers == {Written(m) : m \in {<<"pass", "word">>, <<"secret">>, <<"to", "ken">>,
                                <<"authori", "z", "ation">>, <<"credential">>,
                                <<"private", "key">>, <<"api", "key">>}}

ToLower(key) == [n \in DOMAIN key |-> Small(key[n].letters)]
Contains(s, m) == \E n \in 0 .. Len(s) - Len(m) : SubSeq(s, n + 1, n + Len(m)) = m

\* Bug: the case of the letters counts.
sensitiveAsWritten(key) ==
  LET normalised == SelectSeq(key, LAMBDA w : w.letters \notin Separators)
  IN  \E m \in Markers : Contains(normalised, m)

sensitiveKey(key) ==
  LET normalised == SelectSeq(ToLower(key), LAMBDA w : w.letters \notin Separators)
  IN  \E m \in Markers : Contains(normalised, m)

RECURSIVE redactValue(_)
redactValue(v) ==
  CASE v.kind = "map" -> Map([k \in DOMAIN v.of |-> IF sensitiveKey(k) THEN Redaction
                                                    ELSE redactValue(v.of[k])])
    [] v.kind = "list" -> List([n \in DOMAIN v.of |-> redactValue(v.of[n])])
    [] OTHER -> v
-----------------------------------------------------------------------------
(* The reference: the documented names, and every leaf with the path to it *)

\* docs/how-keybroker-works.md:122: 'names containing password, secret, token,
\* authorisation, credential, private key and API key markers'.
Authorisation == <<"authori", "s", "ation">>
Documented == {<<"pass", "word">>, <<"secret">>, <<"to", "ken">>, Authorisation,
               <<"credential">>, <<"private", "key">>, <<"api", "key">>}

\* What the code recognises in place of one of them.
Unrecognised == {Authorisation}
Instead == {<<"authori", "z", "ation">>}

\* Some stretch of the key spells the name, whatever the case and the separators.
Spells(key, name) ==
  \E i \in 1 .. Len(key) : \E j \in i .. Len(key) :
    LET at == {n \in i .. j : key[n].letters \notin Separators} IN
    /\ Cardinality(at) = Len(name)
    /\ \A n \in at : key[n].letters = name[Cardinality(at \cap i .. n)]

Secret(step) == /\ step.kind = "map"
                /\ \E name \in (Documented \ Unrecognised) \cup Instead : Spells(step.at, name)

RECURSIVE Entries(_)
Entries(v) ==
  IF v.kind = "leaf" \/ DOMAIN v.of = {} THEN {[path |-> <<>>, leaf |-> v]}
  ELSE UNION {{[e EXCEPT !.path = <<[kind |-> v.kind, at |-> k]>> \o @] : e \in Entries(v.of[k])} :
              k \in DOMAIN v.of}

\* The entry as the log may show it: cut at the first key that names a secret.
Shown(e) ==
  LET at == {i \in 1 .. Len(e.path) : Secret(e.path[i])} IN
  IF at = {} THEN e
  ELSE [path |-> SubSeq(e.path, 1, CHOOSE i \in at : \A j \in at : i <= j),
        leaf |-> Redaction]

\* logged shows every entry of sent that is not secret, and of the others the key.
ShowsOnlyPublic(sent, logged) == Entries(logged) = {Shown(e) : e \in Entries(sent)}
=============================================================================
