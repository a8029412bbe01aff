--------------------------------- MODULE Shamir ---------------------------------
(***************************************************************************)
(* The shares of a recovery package: splitting a secret over GF(256) and    *)
(* what Recover makes of a list of shares, genuine or not.                  *)
(*                                                                         *)
(* A secret is a sequence of bytes, a share a record.  Text encodings are   *)
(* reduced to whether a share parses; the SHA-256 checksum of the metadata  *)
(* is equality with the secret.                                             *)
(***************************************************************************)
EXTENDS Naturals, Sequences

CONSTANTS
    SecretBytes,    \* bytes that secrets are made of
    Coefficients,   \* bytes that the random source yields
    MaxShares       \* bound on the shares of a package

ASSUME ShamirAssumption ==
    /\ SecretBytes \subseteq 0..255 /\ SecretBytes # {}
    /\ Coefficients \subseteq 0..255 /\ Coefficients # {}
    /\ MaxShares \in 1..255

Byte == 0..255
Elements(s) == {s[i] : i \in DOMAIN s}
Refused == <<>>     \* no secret, an error

--------------------------------------------------------------------------------
(* Arithmetic in GF(256) *)

xor[a \in Byte, b \in Byte] ==
    IF a = 0 THEN b
    ELSE IF b = 0 THEN a
    ELSE ((a + b) % 2) + 2 * xor[a \div 2, b \div 2]

a ^^ b == xor[a, b]

\* a << 1, reduced by the polynomial 0x11b
Shift(a) == ((2 * a) % 256) ^^ (IF a >= 128 THEN 27 ELSE 0)

gfMul[a \in Byte, b \in Byte] ==
    IF b = 0 THEN 0
    ELSE (IF b % 2 = 1 THEN a ELSE 0) ^^ gfMul[Shift(a), b \div 2]

\* Square and multiply
gfPow[a \in Byte, power \in Nat] ==
    IF power = 0 THEN 1
    ELSE gfMul[IF power % 2 = 1 THEN a ELSE 1, gfPow[gfMul[a, a], power \div 2]]

\* Slip: the exponent of the inverse is one too small.
InverseOff == [b \in Byte \ {0} |-> gfPow[b, 253]]

\* Every element's 254th power, computed once.
Inverse254 == [b \in Byte \ {0} |-> gfPow[b, 254]]

gfDiv(a, b) == gfMul[a, Inverse254[b]]

\* Horner's scheme
horner[coefficients \in Seq(Byte), x \in Byte] ==
    IF coefficients = <<>> THEN 0
    ELSE gfMul[horner[Tail(coefficients), x], x] ^^ Head(coefficients)

\* Slip: the loop starts below the highest coefficient.
evalPolynomialShort(coefficients, x) ==
    horner[SubSeq(coefficients, 1, Len(coefficients) - 1), x]

evalPolynomial(coefficients, x) == horner[coefficients, x]

--------------------------------------------------------------------------------
(* Split, combine, recover *)

\* random[offset] are the coefficients drawn for the byte at offset.
splitSecret(text, random, shares) ==
    [i \in 1..shares |->
        [index |-> i,
         value |-> [o \in DOMAIN text |-> evalPolynomial(<<text[o]>> \o random[o], i)]]]

\* Lagrange's basis at zero for the share x among the other indexes.
basis[others \in Seq(Byte), x \in Byte] ==
    IF others = <<>> THEN 1
    ELSE gfMul[basis[Tail(others), x], gfDiv(Head(others), x ^^ Head(others))]

xorAll[bytes \in Seq(Byte)] ==
    IF bytes = <<>> THEN 0 ELSE Head(bytes) ^^ xorAll[Tail(bytes)]

Others(points, i) ==
    [j \in 1..(Len(points) - 1) |-> points[IF j < i THEN j ELSE j + 1].index]

combineShares(points) ==
    [o \in DOMAIN points[1].value |->
        xorAll[[i \in DOMAIN points |->
                   gfMul[points[i].value[o], basis[Others(points, i), points[i].index]]]]]

validateCreateInputs(threshold, shares) == threshold \in 1..shares /\ shares \in 1..255

\* Every share parses, is of this package, in range and given once.
SharesFit(m, list) ==
    /\ Len(list) >= m.threshold
    /\ \A i \in DOMAIN list :
          /\ list[i].parses
          /\ list[i].package = m.package
          /\ list[i].index \in 1..m.shares
          /\ \A j \in DOMAIN list : list[i].index = list[j].index => i = j

\* The first threshold shares are combined, the others are not looked at.
Recover(m, list) ==
    LET points == SubSeq(list, 1, m.threshold) IN
    IF /\ SharesFit(m, list)
       /\ \A i \in DOMAIN points : Len(points[i].value) = Len(points[1].value)
       /\ combineShares(points) = m.checksum
    THEN m.checksum
    ELSE Refused

\* Create
Create(text, threshold, shares, random) ==
    [metadata |-> [package |-> "rpkg", threshold |-> threshold, shares |-> shares,
                   checksum |-> text],
     shares |-> [i \in 1..shares |->
                    LET point == splitSecret(text, random, shares)[i] IN
                    [parses |-> TRUE, package |-> "rpkg",
                     index |-> point.index, value |-> point.value]]]

--------------------------------------------------------------------------------
(* Bounded inputs *)

\* Packages for secrets of two different bytes.
CreatedPackages ==
    UNION {{Create(text, threshold, shares, random) :
                text \in {s \in SecretBytes \X SecretBytes : s[1] # s[2]},
                random \in LET draws == [1..(threshold - 1) -> Coefficients]
                           IN  draws \X draws} :
           <<threshold, shares>> \in {ts \in (1..MaxShares) \X (1..MaxShares) :
                                        validateCreateInputs(ts[1], ts[2])}}

\* What an operator may hold beside the genuine shares: a damaged share, one
\* that was cut off, one of another package, one of a larger package with the
\* same identifier, and text that is no share.
Strays(pkg) ==
    LET first == pkg.shares[1] IN
    {[first EXCEPT !.value[2] = (@ + 1) % 256],
     [first EXCEPT !.value = SubSeq(@, 1, 1)],
     [first EXCEPT !.package = "other"],
     [first EXCEPT !.index = pkg.metadata.shares + 1],
     [first EXCEPT !.parses = FALSE]}

ShareLists(pkg) ==
    UNION {[1..n -> Elements(pkg.shares) \union Strays(pkg)] : n \in 0..MaxShares}

--------------------------------------------------------------------------------
(* Reference definitions; constant, so that TLC evaluates them once *)

\* Recover returns the secret exactly for the lists that start with a
\* threshold of genuine shares and fit the package.
RecoverExact ==
    \A pkg \in CreatedPackages : \A list \in ShareLists(pkg) :
        Recover(pkg.metadata, list) =
            IF /\ SharesFit(pkg.metadata, list)
               /\ \A i \in 1..pkg.metadata.threshold : list[i] \in Elements(pkg.shares)
            THEN pkg.metadata.checksum
            ELSE Refused

\* Whatever a share of a 2-of-n package is, every byte could be the secret.
EveryByteConsistent ==
    \A x \in 1..MaxShares, y \in SecretBytes, s \in Byte :
        \E c \in Byte : evalPolynomial(<<s, c>>, x) = y
================================================================================
