--------------------------- MODULE TransactionData ---------------------------
(***************************************************************************)
(* The transaction_data of a request: how a verifier writes its items and  *)
(* what a wallet's application is given of them                            *)
(* (core/authorization_request/parameters.rs and mod.rs).                  *)
(*                                                                         *)
(* An item is [credential_ids, algs, content, type, payload], content the  *)
(* variant of its content and payload "delegation" where the members are   *)
(* those of a DelegateSdJwt.  As JSON it lacks content.  A text is         *)
(* [json, padded]: what its bytes say, Bad if they are no JSON object.  A  *)
(* definition commented as a faulty variant is kept to confirm that a      *)
(* property notices a mistake.                                             *)
(***************************************************************************)
EXTENDS RequestObject

HashAlgorithms == {"sha-256", "sha-384", "sha-512"}

\* The item of a JSON object, its content a DelegateSdJwt if the type says so
\* and the members fit, and Unknown whatever the type says if not.
ItemOf(json) ==
  [credential_ids |-> json.credential_ids, algs |-> json.algs,
   content |-> IF json.type = "delegate" /\ json.payload = "delegation"
                 THEN "DelegateSdJwt" ELSE "Unknown",
   type |-> json.type, payload |-> json.payload]

\* There must be credential ids and a type, and only hash algorithms there are.
IsItem(json) ==
  /\ json # Bad /\ Absent \notin {json.credential_ids, json.type}
  /\ json.algs = Absent \/ json.algs \subseteq HashAlgorithms

\* TransactionDataItem::from_base64url_encoded: no padding is taken.
ReadItem(text) == IF text.padded \/ ~IsItem(text.json) THEN Bad ELSE ItemOf(text.json)

\* Faulty variant: the text is padded, as other base64url encoders do.
WriteItemPadded(item) ==
  [json |-> [m \in {"credential_ids", "algs", "type", "payload"} |-> item[m]], padded |-> TRUE]

\* TransactionDataItem::into_base64url_encoded: a DelegateSdJwt is of the type
\* "delegate", the content of an item is flattened onto it.
WriteItem(item) ==
  [json |-> [m \in {"credential_ids", "algs", "type", "payload"} |-> item[m]], padded |-> FALSE]

\* get_transaction_data_items: Absent also where the parameter is there and
\* does not parse; Bad (invalid_transaction_data) where an item does not.
TransactionDataItems(o) ==
  IF ~Readable(o, "transaction_data") THEN Absent
  ELSE IF \E k \in DOMAIN o.transaction_data : ReadItem(o.transaction_data[k]) = Bad THEN Bad
  ELSE [k \in DOMAIN o.transaction_data |-> ReadItem(o.transaction_data[k])]

============================================================================
