---------------------------- MODULE ServiceCatalog ----------------------------
(***************************************************************************)
(* servicecatalog: what an entry of the partner-visible catalog must be.   *)
(*                                                                         *)
(* A JSON value is known by all the keys and all the strings anywhere in   *)
(* it: one private key or string makes the whole value private.  A text is *)
(* one of a few: padded or blank ones, an internal host, a sentence that   *)
(* mentions an internal address, a credential, or plain.                   *)
(***************************************************************************)
EXTENDS Naturals

CONSTANT maxPublicSchemaBytes

\* strings.TrimSpace on the texts in use.
Trim(text) ==
  CASE text = " " -> ""
    [] text = " deprecated" -> "deprecated"
    [] text = "retired " -> "retired"
    [] text = " order_to_cash.invoice" -> "order_to_cash.invoice"
    [] OTHER -> text

\* A name that is a host or an address, or a credential, is private; a text
\* that merely mentions one is not.
PrivateKeys == {"endpoint", "token"}
PrivateStrings == {"orders.internal", "Bearer abc"}

containsPrivateMaterial(value) ==
  value.keys \cap PrivateKeys # {} \/ value.strings \cap PrivateStrings # {}

Text(text) == [keys |-> {}, strings |-> {text}]

PublicText(text) == IF containsPrivateMaterial(Text(Trim(text))) THEN "" ELSE Trim(text)

DefaultState(state) == IF Trim(state) = "" THEN "active" ELSE Trim(state)

VisibleState(state) == DefaultState(state) \in {"active", "deprecated"}

\* A schema is its length, 0 when blank, whether it is JSON, and its content.
ValidatePublicSchemaJSON(schema) ==
  /\ schema.bytes > 0 /\ schema.bytes <= maxPublicSchemaBytes
  /\ schema.json
  /\ ~containsPrivateMaterial(schema)

\* The actions of a JSON array, trimmed and without repetition; none when the
\* array is refused.
AllowedActions(array) ==
  LET actions == {Trim(array[k]) : k \in DOMAIN array}
  IN  IF "" \in actions THEN {} ELSE actions

\* An entry's identifiers are naturals, 0 for the empty one.
ValidateEntry(entry) ==
  /\ "" \notin {Trim(entry.tenant), Trim(entry.name), Trim(entry.kind), Trim(entry.version)}
  /\ ~containsPrivateMaterial(Text(Trim(entry.name)))
  /\ ~containsPrivateMaterial(Text(Trim(entry.description)))
  /\ ValidatePublicSchemaJSON(entry.schema)
  /\ AllowedActions(entry.actions) # {}
  /\ DefaultState(entry.state) \in {"active", "deprecated", "retired"}
  /\ DefaultState(entry.state) = "deprecated" => entry.replacement # entry.id

=============================================================================
