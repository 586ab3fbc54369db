------------------------------- MODULE Cipher -------------------------------
(***************************************************************************)
(* Texts sealed with a passphrase (src/services/cryptohelper.cpp):         *)
(*   ENC:1:pbkdf2-sha256:<iterations>:<salt>:<nonce>:<ciphertext>:<tag>    *)
(*                                                                         *)
(* The primitives are symbolic: a key or a code is the name of what went   *)
(* into it, so that two are equal when, and only when, that is the same.   *)
(* A base64 field is a sequence of symbols: the salt, the nonce and the    *)
(* tag are one each when they have their size, the ciphertext has one for  *)
(* each letter of the plaintext, and "~" is a change of the text that      *)
(* decoding does not see (a character it skips, the unused bits of the     *)
(* last one).                                                              *)
(***************************************************************************)
EXTENDS Payloads

\* Letters of a plaintext; bytes outside are what a wrong key makes of one.
Letters == {"x", "y", ":", "BOM"}

KdfName == "pbkdf2-sha256"
Pbkdf2Iterations == "200000"

Pbkdf2Sha256(passphrase, salt, iterations) == ToString(<<"derived", passphrase, salt, iterations>>)
HmacSha256(key, message) == ToString(<<"tag", key, message>>)

\* One byte under the keystream of key and nonce; applied again, it undoes itself.
Masked(c, key, nonce, i) == ToString(<<c, key, nonce, i>>)

XorWithKeystream(plain, key, nonce) == [i \in DOMAIN plain |-> Masked(plain[i], key, nonce, i)]

XorBack(cipher, key, nonce) ==
    [i \in DOMAIN cipher |->
        LET from == {c \in Letters : Masked(c, key, nonce, i) = cipher[i]}
        IN IF from = {} THEN "garbage" ELSE CHOOSE c \in from : TRUE]

-----------------------------------------------------------------------------
\* authenticationMessage(), and a variant that leaves the nonce out.
AuthenticationMessageNoNonce(iterations, salt, nonce, cipher) == <<KdfName, iterations, salt, cipher>>

AuthenticationMessage(iterations, salt, nonce, cipher) == <<KdfName, iterations, salt, nonce, cipher>>

\* encryptText(), for the salt and the nonce drawn. The two halves of the derived
\* key, one to encrypt and one to authenticate, go by one name.
EncryptText(plain, passphrase, salt, nonce) ==
    IF passphrase = <<>> THEN <<>>
    ELSE LET key == Pbkdf2Sha256(passphrase, salt, Pbkdf2Iterations)
             cipher == XorWithKeystream(plain, key, nonce)
             message == AuthenticationMessage(Pbkdf2Iterations, <<salt>>, <<nonce>>, cipher)
         IN <<"ENC", ":", "1", ":", KdfName, ":", Pbkdf2Iterations, ":", salt, ":", nonce, ":">>
            \o cipher \o <<":", HmacSha256(key, message)>>

-----------------------------------------------------------------------------
\* toInt(): the number a text spells, printed again; none for what is no number
\* or none above 0.
Iterations(text) ==
    CASE text \in {<<"200000">>, <<"0", "200000">>, <<"+", "200000">>} -> {"200000"}
      [] text = <<"1">> -> {"1"}
      [] OTHER -> {}

\* decodeBase64Url(): the bytes of a field; it is valid if it has any.
Decoded(field) == SelectSeq(field, LAMBDA c : c # "~")
ValidField(field) == Decoded(field) # <<>>
FixedSizeField(field) == Len(Decoded(field)) = 1

\* fromUtf8(), which drops a leading byte-order mark, and the comparison with what
\* toUtf8() makes of the text: letters are UTF-8, garbage may be or not.
WithoutMark(bytes) == IF Starts(bytes, {<<"BOM">>}) THEN Tail(bytes) ELSE bytes
FromUtf8(bytes) ==
    IF WithoutMark(bytes) # bytes THEN {<<>>}
    ELSE IF Contains(bytes, "garbage") THEN {<<>>, bytes} ELSE {bytes}

\* decryptText(): the texts it may return, <<>> when it refuses.
DecryptText(text, passphrase) ==
    LET parts == Split(text, ":")
        key(n) == Pbkdf2Sha256(passphrase, Decoded(parts[5])[1], n)
        tag(n) == HmacSha256(key(n), AuthenticationMessage(n, parts[5], parts[6], parts[7]))
        plain(n) == XorBack(Decoded(parts[7]), key(n), Decoded(parts[6])[1])
    IN IF \/ passphrase = <<>>
          \/ Len(parts) # 8
          \/ SubSeq(parts, 1, 3) # <<<<"ENC">>, <<"1">>, <<KdfName>>>>
          \/ \E i \in {5, 6, 8} : ~FixedSizeField(parts[i])
          \/ ~ValidField(parts[7]) /\ parts[7] # <<>>
          \/ \A n \in Iterations(parts[4]) : Decoded(parts[8]) # <<tag(n)>>
       THEN {<<>>}
       ELSE UNION {FromUtf8(plain(n)) : n \in Iterations(parts[4])}
=============================================================================
