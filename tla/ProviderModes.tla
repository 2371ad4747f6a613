----------------------------- MODULE ProviderModes -----------------------------
(***************************************************************************)
(* The two modes of a provider row, API key and monthly plan, against the  *)
(* flat fields of clients from before the split: adminProviderBody's       *)
(* normalizeLegacy on the way in, the applying of modes by create and      *)
(* update, and the legacy mirror of loadCatalog on the way out.            *)
(*                                                                         *)
(* Nil is an absent pointer, slice or map; Blank an empty string; Yes and  *)
(* No are booleans. DocsURL stands for SignupURL too, treated alike.       *)
(***************************************************************************)
Nil == "nil"
Blank == ""
EmptyList == "[]"
Yes == "true"
No == "false"

ApiAuths == {Blank, "api_key"}
MonthlyAuths == {"oauth_openai", "anthropic_oauth", "copilot_device"}
URLs == {Blank, "https://new"}

IsMonthly(auth) == auth \in MonthlyAuths
Or(new, unset, old) == IF new = unset THEN old ELSE new

\* Old clients send flat fields only, and no flat field can be null.
FlatBodies ==
  [auth : ApiAuths \cup MonthlyAuths, url : URLs, docs : URLs,
   oauth : {Nil, "config"}, keys : {Nil, EmptyList, "keys"}, shared : {Nil, Yes, No}]

NoMode == [on |-> Nil, auth |-> Nil, url |-> Nil, docs |-> Nil, oauth |-> Nil,
           keys |-> Nil, shared |-> Nil]

\* The mode is not switched on.
SlipFlat(b, mode) ==
  [mode EXCEPT !.url = Or(b.url, Blank, @), !.docs = Or(b.docs, Blank, @)]

\* A flat field that is not blank overrides the one of its mode.
Flat(b, mode) ==
  [mode EXCEPT !.on = Yes, !.url = Or(b.url, Blank, @), !.docs = Or(b.docs, Blank, @)]

\* The mode bodies the handler goes on with: a flat body fills one of the two.
Silent(b) == b.auth = Blank /\ b.url = Blank /\ b.oauth = Nil /\ b.keys = Nil
NormalizeLegacy(b, api, monthly) ==
  CASE Silent(b) -> [api |-> api, monthly |-> monthly]
    [] ~Silent(b) /\ IsMonthly(b.auth) ->
         [api |-> api,
          monthly |-> [Flat(b, monthly) EXCEPT !.auth = b.auth, !.oauth = Or(b.oauth, Nil, @)]]
    [] OTHER ->
         [api |-> [Flat(b, api) EXCEPT !.keys = Or(b.keys, Nil, @), !.shared = Or(b.shared, Nil, @)],
          monthly |-> monthly]

\* encodeJSON stores an empty list as "", which decodes to nil.
Encoded(v) == IF v = EmptyList THEN Nil ELSE v

\* applyApiKeyMode and applyMonthlyMode; an update sets the same columns.
Apply(row, modes) ==
  LET a == modes.api
      m == modes.monthly
  IN [apiOn |-> Or(a.on, Nil, row.apiOn), apiUrl |-> Or(a.url, Nil, row.apiUrl),
      apiDocs |-> Or(a.docs, Nil, row.apiDocs),
      apiKeys |-> IF a.keys = Nil THEN row.apiKeys ELSE Encoded(a.keys),
      apiShared |-> Or(a.shared, Nil, row.apiShared),
      monthlyOn |-> Or(m.on, Nil, row.monthlyOn), monthlyAuth |-> Or(m.auth, Nil, row.monthlyAuth),
      monthlyUrl |-> Or(m.url, Nil, row.monthlyUrl), monthlyDocs |-> Or(m.docs, Nil, row.monthlyDocs),
      monthlyOauth |-> Or(m.oauth, Nil, row.monthlyOauth)]

NewRow == [apiOn |-> No, apiUrl |-> Blank, apiDocs |-> Blank, apiKeys |-> Nil,
           apiShared |-> No, monthlyOn |-> No, monthlyAuth |-> Blank,
           monthlyUrl |-> Blank, monthlyDocs |-> Blank, monthlyOauth |-> Nil]

\* AdminCreateProvider turns the API-key mode on if neither is.
Created(modes) ==
  LET row == Apply(NewRow, modes)
  IN IF row.monthlyOn = Yes THEN row ELSE [row EXCEPT !.apiOn = Yes]

\* The flat fields of the public catalog come from the active mode.
NoMirror == [auth |-> Blank, url |-> Blank, docs |-> Blank, oauth |-> Nil, keys |-> Nil,
             shared |-> No]
Mirror(row) ==
  CASE row.apiOn = Yes ->
         [NoMirror EXCEPT !.auth = "api_key", !.url = row.apiUrl, !.docs = row.apiDocs,
                          !.keys = row.apiKeys, !.shared = row.apiShared]
    [] row.apiOn = No /\ row.monthlyOn = Yes ->
         [NoMirror EXCEPT !.auth = row.monthlyAuth, !.url = row.monthlyUrl,
                          !.docs = row.monthlyDocs, !.oauth = row.monthlyOauth]
    [] OTHER -> NoMirror

-----------------------------------------------------------------------------
\* Rows an update may find.
KnownRows ==
  [apiOn : {Yes, No}, apiUrl : {Blank, "https://old"}, apiDocs : {Blank}, apiKeys : {Nil, "old"},
   apiShared : {Yes, No}, monthlyOn : {Yes, No}, monthlyAuth : {Blank, "anthropic_oauth"},
   monthlyUrl : {Blank, "https://old"}, monthlyDocs : {Blank}, monthlyOauth : {Nil, "old"}]

\* What an old client sent and finds again: the fields its kind of provider has.
ReadsBack(b, row) ==
  LET seen == Mirror(row) IN
    /\ (b.url # Blank) => (seen.url = b.url)
    /\ (b.docs # Blank) => (seen.docs = b.docs)
    /\ IF IsMonthly(b.auth)
         THEN seen.auth = b.auth /\ (b.oauth # Nil => seen.oauth = b.oauth)
         ELSE /\ seen.auth = "api_key"
              /\ (b.keys # Nil) => (seen.keys = Encoded(b.keys))
              /\ (b.shared # Nil) => (seen.shared = b.shared)

\* Every flat body, after a create and after an update of any known row.
FlatBodiesReadBack ==
  \A b \in {x \in FlatBodies : ~Silent(x)} :
    LET modes == NormalizeLegacy(b, NoMode, NoMode) IN
      /\ ReadsBack(b, Created(modes))
      /\ \A row \in KnownRows :
           \/ IsMonthly(b.auth) /\ row.apiOn = Yes
           \/ ReadsBack(b, Apply(row, modes))
===============================================================================
