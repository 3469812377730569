------------------------------- MODULE Masking ------------------------------
(***************************************************************************)
(* Masking of provider responses (internal/masking): secrets under          *)
(* sensitive field names, name/value pairs, the four masking levels, and    *)
(* the labelling or stripping of untrusted content.                         *)
(*                                                                         *)
(* A document is a JSON tree: [t |-> "leaf", v], [t |-> "obj", e] with e    *)
(* the set of its fields [k, d], or [t |-> "arr", e] with e the documents   *)
(* in it.  A body that is not valid JSON (text, or JSON cut off by the size *)
(* limit) is the set of its "name: value" pairs, which is what the line,    *)
(* element and pair patterns recognise.  A name is [sfx, word, ident, page, *)
(* content]: which of the lists of names it matches.                        *)
(***************************************************************************)
EXTENDS Naturals, Sequences, FiniteSets

CONSTANTS MkBodies,   \* [json : BOOLEAN, doc] the responses
          MkPolicies, \* [gateway, level, allow, untrusted, handling, patterns]: patterns, the value
                      \* formats that the patterns of the provider and of the caller match;
                      \* a level that is left empty is "unset"
          MkName,     \* what a name matches: [name -> [sfx, word, ident, page, content]]
          MkField,    \* the names of fields
          MkValue,    \* the values of leaves
          MkDepth     \* how deep the JSON decoder lets a document be

VARIABLES mkBody, mkPolicy, mkOut, mkDone
mkVars == <<mkBody, mkPolicy, mkOut, mkDone>>

MkLeaf(v) == [t |-> "leaf", v |-> v]
MkRedacted == MkLeaf("redacted")
MkEmpty == [t |-> "obj", e |-> {}]
\* The pairs of a text, when it is wrapped as a whole.
MkText(pairs) == [t |-> "arr", e |-> {[t |-> "obj", e |-> {[k |-> p.k, d |-> MkLeaf(p.v)]}] : p \in pairs}]
\* content_labeler.go puts what is not to be trusted under a name that says so.
MkLabel(d) == [t |-> "obj", e |-> {[k |-> "label", d |-> d]}]

\* The documents of at most n levels.  A response has at most MkDepth, and the text and
\* the label put around it no more than three in addition.
MkLeafs == [t : {"leaf"}, v : MkValue]
MkOver(D) == [t : {"obj"}, e : SUBSET [k : MkField, d : D]] \cup [t : {"arr"}, e : SUBSET D]
MkTop == MkDepth + 3
MkTree[n \in 0 .. MkTop] == IF n = 0 THEN MkLeafs ELSE MkLeafs \cup MkOver(MkTree[n - 1])
MkDoc == MkTree[MkTop]

\* -- Which names, which values ----------------------------------------------------
\* Pagination tokens never; sensitive suffixes always; a sensitive word inside
\* the name unless what follows it makes the name an identifier.
IsSensitiveKey(k) == ~MkName[k].page /\ (MkName[k].sfx \/ (MkName[k].word /\ ~MkName[k].ident))
\* Neither the placeholder nor the label is a name that hides a secret, a body is what
\* the decoder and the patterns make of a response, and a pattern that matches the
\* placeholder changes nothing.
ASSUME MaskingAssumption ==
    /\ MkDepth \in Nat /\ {"redacted", "stripped"} \subseteq MkValue /\ "label" \in MkField
    /\ \A n \in {"redacted", "label"} \cap DOMAIN MkName : ~IsSensitiveKey(n)
    /\ MkBodies \subseteq [json : {TRUE}, doc : MkTree[MkDepth]]
                        \cup [json : {FALSE}, doc : SUBSET [k : MkField, v : MkValue]]
    /\ \A p \in MkPolicies : "redacted" \notin p.patterns

RedactableValue(d) == ~(d.t = "leaf" /\ d.v \in {"true", "null"})

\* {"name": "db_password", "value": ...}: the value is redacted by its name, whose field
\* is called "name" or "key".  (With one of each the code takes whichever its map yields
\* last; here an object gives its value one name.)
MkNames(fields) == {x.d.v : x \in {y \in fields : y.k = "name" /\ y.d.t = "leaf"}}
RedactNameValuePair(fields) ==
    IF \E n \in MkNames(fields) \cap DOMAIN MkName : IsSensitiveKey(n)
    THEN {IF x.k = "value" /\ RedactableValue(x.d) THEN [k |-> x.k, d |-> MkRedacted] ELSE x : x \in fields}
    ELSE fields

RedactField(x, redacted) ==
    [k |-> x.k, d |-> IF x.k \in DOMAIN MkName /\ IsSensitiveKey(x.k) /\ RedactableValue(x.d)
                      THEN MkRedacted ELSE redacted]
RedactValue[d \in MkDoc] ==
    CASE d.t = "obj" -> [t |-> "obj", e |-> {RedactField(x, RedactValue[x.d]) : x \in RedactNameValuePair(d.e)}]
      [] d.t = "arr" -> [t |-> "arr", e |-> {RedactValue[x] : x \in d.e}]
      [] OTHER -> d

\* -- Text: one pattern after the other, then secrets without a name -----------------
RedactTextSecretFields(pairs) ==
    {IF p.k \in DOMAIN MkName /\ IsSensitiveKey(p.k) THEN [p EXCEPT !.v = "redacted"] ELSE p : p \in pairs}

RedactInline(doc, classes) ==
    LET redact[d \in MkDoc] ==
          CASE d.t = "obj" -> [t |-> "obj", e |-> {[k |-> x.k, d |-> redact[x.d]] : x \in d.e}]
            [] d.t = "arr" -> [t |-> "arr", e |-> {redact[x] : x \in d.e}]
            [] OTHER -> IF d.v \in classes THEN MkRedacted ELSE d
    IN  redact[doc]
RedactPairs(pairs, classes) == {IF p.v \in classes THEN [p EXCEPT !.v = "redacted"] ELSE p : p \in pairs}
InlineSecrets == {"pem", "userinfo"}
BasicClasses == {"api_key", "bearer"}
StrictClasses == {"email"}
StrictTokenRe == {"long_token"}

RedactSecretFields(b) ==
    [b EXCEPT !.doc = IF b.json THEN RedactInline(RedactValue[b.doc], InlineSecrets)
                      ELSE RedactPairs(RedactTextSecretFields(b.doc), InlineSecrets)]
ApplyClasses(b, classes) ==
    [b EXCEPT !.doc = IF b.json THEN RedactInline(b.doc, classes) ELSE RedactPairs(b.doc, classes)]

\* Allowed top-level fields only, with their values as they are.
RedactToAllowFields(b, allow) ==
    IF ~b.json \/ allow = {} \/ b.doc.t # "obj" THEN [json |-> TRUE, doc |-> MkEmpty]
    ELSE [b EXCEPT !.doc = [t |-> "obj", e |-> {x \in b.doc.e : x.k \in allow}]]

Redact(b, p) ==
    CASE p.level = "block_body" -> [json |-> TRUE, doc |-> MkEmpty]
      [] p.level = "metadata_only" -> RedactToAllowFields(b, p.allow)
      [] p.level = "strict" ->
           ApplyClasses(RedactSecretFields(b), BasicClasses \cup StrictClasses \cup StrictTokenRe)
      [] p.level \in {"basic", "unset"} -> ApplyClasses(RedactSecretFields(b), BasicClasses)
      [] OTHER -> [json |-> TRUE, doc |-> MkEmpty]   \* an error: nothing is passed on

\* The gateway's own profiles; none is basic, and one it does not know is strict.  It
\* masks by the names of fields, and of the formats only those that four providers and
\* its caller have patterns for.  (Its common patterns mask by names again: sensitive
\* ones, and those that begin with "bearer", which are left alone here.)
ProfileOpen(level) == level
Profile(level) == CASE level = "unset" -> "basic"
                    [] level \in {"basic", "strict", "metadata_only"} -> level
                    [] OTHER -> "strict"
Body(b, p) ==
    CASE Profile(p.level) = "metadata_only" -> [json |-> TRUE, doc |-> MkEmpty]
      [] Profile(p.level) = "basic" -> ApplyClasses(RedactSecretFields(b), p.patterns)
      [] Profile(p.level) = "strict" ->
           ApplyClasses(RedactSecretFields(b), p.patterns \cup StrictTokenRe)
      [] OTHER -> b

\* -- Untrusted content --------------------------------------------------------------
IsContentField(k) == k \in DOMAIN MkName /\ MkName[k].content
StripFields[d \in MkDoc] ==
    CASE d.t = "obj" -> [t |-> "obj", e |-> {[k |-> x.k, d |-> StripFields[x.d]] : x \in {y \in d.e : ~IsContentField(y.k)}}]
      [] d.t = "arr" -> [t |-> "arr", e |-> {StripFields[x] : x \in d.e}]
      [] OTHER -> d
\* A labelled field and everything below it is marked as data, not instructions.
LabelFields[d \in MkDoc] ==
    CASE d.t = "obj" -> [t |-> "obj", e |-> {IF IsContentField(x.k) THEN [k |-> "label", d |-> x.d]
                                             ELSE [k |-> x.k, d |-> LabelFields[x.d]] : x \in d.e}]
      [] d.t = "arr" -> [t |-> "arr", e |-> {LabelFields[x] : x \in d.e}]
      [] OTHER -> d
MkWhole(b) == IF b.json THEN b.doc ELSE MkText(b.doc)
\* Only an object is searched for fields: anything else is labelled as a whole,
\* or dropped.
LabelResponse(b, p) ==
    IF ~p.untrusted THEN b ELSE
    CASE p.handling = "strip" -> IF b.json /\ b.doc.t = "obj" THEN [b EXCEPT !.doc = StripFields[b.doc]]
                                 ELSE [json |-> TRUE, doc |-> MkEmpty]
      [] p.handling = "label" -> IF b.json /\ b.doc.t = "obj" THEN [b EXCEPT !.doc = LabelFields[b.doc]]
                                 ELSE [json |-> TRUE, doc |-> MkLabel(MkWhole(b))]
      [] OTHER -> [json |-> TRUE, doc |-> MkLeaf("stripped")]

MkInit == /\ mkBody = [json |-> FALSE, doc |-> {}] /\ mkOut = [json |-> FALSE, doc |-> {}]
          /\ mkDone = FALSE /\ mkPolicy = CHOOSE p \in MkPolicies : TRUE
MkRespond(b, p) ==
    /\ ~mkDone /\ mkDone' = TRUE
    /\ mkBody' = b /\ mkPolicy' = p
    /\ mkOut' = IF p.gateway THEN Body(b, p) ELSE LabelResponse(Redact(b, p), p)
MkNext == \E b \in MkBodies, p \in MkPolicies : MkRespond(b, p)

\* The leaves of a tree with the names above them and, below the value of a name/value
\* pair, the name it goes by: a reference to compare with, independent of how the trees
\* are rewritten.
MkUnder(leaves, x, fields) ==
    {[above |-> l.above \cup {x.k}, by |-> l.by \cup (IF x.k = "value" THEN MkNames(fields) ELSE {}), v |-> l.v] :
       l \in leaves}
MkLeaves[d \in MkDoc] ==
    CASE d.t = "obj" -> UNION {MkUnder(MkLeaves[x.d], x, d.e) : x \in d.e}
      [] d.t = "arr" -> UNION {MkLeaves[x] : x \in d.e}
      [] OTHER -> {[above |-> {}, by |-> {}, v |-> d.v]}

\* With every level that passes the body on, no value is left under a name that is
\* sensitive, at any depth, in an array or below a nested object, nor next to one in a
\* name/value pair, and no value anywhere of a format that is to be masked: keys in PEM
\* and passwords in URLs always, API keys and bearer tokens by the masking levels, by the
\* gateway only what the provider's and the caller's patterns match, and any long run
\* when strict.  Booleans and nulls stay (secret_fields.go:168 and 202, redactor.go:29,
\* gateway/redact/redact.go:119).
MkSafe == {"redacted", "true", "null", "stripped"}
MkSensitive(names) ==
    \E k \in names \cap DOMAIN MkName : ~MkName[k].page /\ (MkName[k].sfx \/ (MkName[k].word /\ ~MkName[k].ident))
MkStrict(p) == p.level = "strict" \/ (p.gateway /\ p.level \notin {"unset", "basic", "metadata_only"})
MkFormats(p) == (IF p.gateway THEN p.patterns ELSE BasicClasses)
                \cup (IF MkStrict(p) THEN StrictTokenRe ELSE {})
NothingSensitiveLeft ==
    mkDone /\ (mkPolicy.level = "metadata_only" => mkPolicy.gateway) =>
      \A l \in MkLeaves[MkWhole(mkOut)] :
         /\ MkSensitive(l.above \cup l.by) => l.v \in MkSafe
         /\ l.v \notin InlineSecrets \cup MkFormats(mkPolicy)

\* What an untrusted provider sends in its content fields never reaches the
\* agent unmarked: it is below a label or gone, whatever the masking level
\* leaves of the document (content_labeler.go:21).
ContentMarked ==
    mkDone /\ mkPolicy.untrusted /\ ~mkPolicy.gateway =>
      mkOut.json /\ \A l \in MkLeaves[mkOut.doc] :
        (\E k \in l.above : IsContentField(k)) => "label" \in l.above

\* What masking leaves of a document, at every level and depth: no secret that its
\* name or its format gives away at that level, and no content of an untrusted provider
\* without its label.
MaskingHolds == NothingSensitiveLeft /\ ContentMarked
=============================================================================
