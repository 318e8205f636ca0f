--------------------------- MODULE BrowserCrypto ---------------------------
(***************************************************************************)
(* The cryptography of a tab (static/js/crypto.js), symbolically: a key    *)
(* pair and its public key have one name, a derived key is the pair of     *)
(* names it was derived from, and a ciphertext opens with its key and IV   *)
(* only.  generateKeyPair and exportPublicKey take time and may fail: they *)
(* are steps of the pages that await them.  Base64 is left out.            *)
(***************************************************************************)

\* The public keys whose import may be rejected: the validators of the server
\* look at kty and crv only, so what another client than these pages sent may
\* hold no point of the curve, or have no x at all.
CONSTANT DubiousKeys

\* ECDH: the same key from either end.
DeriveSharedKey(myPrivateKey, theirPublicKey) == {myPrivateKey, theirPublicKey}

\* AES-GCM under a random IV, which goes along in clear.
Encrypt(sharedKey, iv, plaintext) ==
    [iv |-> iv, ciphertext |-> [key |-> sharedKey, iv |-> iv, text |-> plaintext]]

\* WebCrypto rejects (no plaintext comes out) unless the tag is right.
Decrypts(sharedKey, message, plaintext) ==
    message.ciphertext = [key |-> sharedKey, iv |-> message.iv, text |-> plaintext]
=============================================================================
