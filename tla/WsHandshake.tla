---------------------------- MODULE WsHandshake ----------------------------
(***************************************************************************)
(* ws_handshake.c: the key of a request and the check of the response.     *)
(*                                                                         *)
(* A response is a record of what the check looks for: the status, the two *)
(* headers, and the key its accept value was computed from, or None when   *)
(* it has no accept value.  SHA-1 and base64 are taken to be injective.    *)
(***************************************************************************)
EXTENDS Naturals

CONSTANTS
  Keys,                      (* contents of a key buffer                   *)
  None                       (* no accept value                            *)

ASSUME KeysAssumption == None \notin Keys

WS_KEY_LENGTH == 24
RANDOM_BYTES  == 16

Responses == [switching : BOOLEAN, upgrade : BOOLEAN, connection : BOOLEAN,
              accept : Keys \cup {None}]

\* mbedtls_base64_encode writes 4 characters for 3 bytes and a terminating
\* zero, or nothing at all if the buffer does not have the room.
Base64Fits(bytes, room) == 4 * ((bytes + 2) \div 3) + 1 <= room

\* The result of the encoder is not looked at: without room, which 24 bytes are
\* not for 16, the buffer keeps what it had and no key is random.
generate_websocket_key(key) ==
  IF Base64Fits(RANDOM_BYTES, WS_KEY_LENGTH) THEN Keys ELSE {key}

\* Mutant: a response is taken without its accept value.
VerifyWithoutAccept(response, key) ==
  response.switching /\ response.upgrade /\ response.connection

ws_verify_handshake_response(response, key) ==
  /\ response.switching
  /\ response.upgrade
  /\ response.connection
  /\ response.accept # None
  /\ response.accept = key
=============================================================================
