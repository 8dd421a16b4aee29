------------------------------ MODULE HEArray ------------------------------
(***************************************************************************)
(* The similarity score as HEManager computes it: the vector of the TF     *)
(* values of a document and the vector of the query are cut into pieces of *)
(* as many values as a ciphertext has slots, the last piece is filled up,  *)
(* the ciphertexts are multiplied in pairs, and the slots of the products  *)
(* are added up after decryption.                                          *)
(*                                                                         *)
(* A ciphertext is the sequence of the values in its slots, as long as it  *)
(* can be decrypted; a slot holds a value modulo the prime P.  A query     *)
(* vector is as long as the dictionary it was made with, and so is a TF    *)
(* vector: after another import the dictionaries need not be the same.     *)
(***************************************************************************)
EXTENDS Integers, Sequences

CONSTANTS
  MaxLength,           \* bound: how many words a dictionary may have
  MaxValue,            \* bound: the largest value in a vector
  NSlots,              \* ea.size()
  P                    \* HE_PARAM_P

ASSUME LengthsAssumption == MaxLength \in Nat /\ MaxValue \in Nat
ASSUME ParamAssumption   == NSlots \in Nat \ {0} /\ P \in Nat \ {0, 1}

VARIABLES
  tf, queryTF,         \* the vectors
  stage,
  pos,                 \* how many values are encrypted (i of EncryptArray) or added
  array,               \* encr_vector of EncryptArray
  encrTF,              \* the encrypted TF values, as they are in the file
  encrQuery,           \* the encrypted query
  scores,              \* encr_similarity_coefficient
  score                \* m_lSimilarityScore

heVars == <<tf, queryTF, stage, pos, array, encrTF, encrQuery, scores, score>>

Vectors == UNION {[1 .. n -> 0 .. MaxValue] : n \in 1 .. MaxLength}
Slots   == [1 .. NSlots -> 0 .. P - 1]

HETypeOK ==
  /\ tf \in Seq(Nat) /\ queryTF \in Seq(Nat)
  /\ stage \in {"tf", "query", "multiply", "decrypt", "done"}
  /\ pos \in 0 .. MaxLength + NSlots
  /\ \A a \in {array, encrTF, encrQuery, scores} :
       \A i \in DOMAIN a : a[i] \in Slots
  /\ score \in Nat

HEInit ==
  /\ tf \in Vectors /\ queryTF \in Vectors
  /\ stage = "tf"
  /\ pos = 0
  /\ array = <<>>
  /\ encrTF = <<>> /\ encrQuery = <<>>
  /\ scores = <<>>
  /\ score = 0

-----------------------------------------------------------------------------
(* EncryptArray, for a document first and for a query later.                 *)

Encrypting == stage \in {"tf", "query"}
Vector == IF stage = "tf" THEN tf ELSE queryTF

Quotient == Len(Vector) \div NSlots
Reminder == Len(Vector) % NSlots

\* Fault: the slots that are left are not filled up.
FilledUpNot(values) == [k \in DOMAIN values |-> values[k] % P]

\* ConstructSingleCipehrtext.
FilledUp(values) ==
  [k \in 1 .. NSlots |-> IF k <= Len(values) THEN values[k] % P ELSE 0]

EncryptFull ==
  /\ Encrypting
  /\ pos < Quotient * NSlots
  /\ array' = Append(array, FilledUp(SubSeq(Vector, pos + 1, pos + NSlots)))
  /\ pos' = pos + NSlots
  /\ UNCHANGED <<tf, queryTF, stage, encrTF, encrQuery, scores, score>>

\* Fault: the piece that does not fill a ciphertext is forgotten.
ReminderForgotten ==
  /\ Encrypting
  /\ pos = Quotient * NSlots /\ Reminder > 0
  /\ pos' = Len(Vector)
  /\ UNCHANGED <<tf, queryTF, stage, array, encrTF, encrQuery, scores, score>>

EncryptReminder ==
  /\ Encrypting
  /\ pos = Quotient * NSlots /\ Reminder > 0
  /\ array' = Append(array, FilledUp(SubSeq(Vector, pos + 1, pos + Reminder)))
  /\ pos' = pos + Reminder
  /\ UNCHANGED <<tf, queryTF, stage, encrTF, encrQuery, scores, score>>

Encrypted ==
  /\ Encrypting
  /\ pos = Len(Vector)
  /\ encrTF' = IF stage = "tf" THEN array ELSE encrTF
  /\ encrQuery' = IF stage = "query" THEN array ELSE encrQuery
  /\ stage' = IF stage = "tf" THEN "query" ELSE "multiply"
  /\ pos' = 0
  /\ array' = <<>>
  /\ UNCHANGED <<tf, queryTF, scores, score>>

-----------------------------------------------------------------------------
(* CalculateSimilarity and DecryptArray.                                   *)

Times(a, b) == [k \in 1 .. NSlots |-> (a[k] * b[k]) % P]

Multiply ==
  /\ stage = "multiply"
  /\ Len(encrTF) = Len(encrQuery)
  /\ Len(scores) < Len(encrTF)
  /\ LET i == Len(scores) + 1
     IN  scores' = Append(scores, Times(encrTF[i], encrQuery[i]))
  /\ UNCHANGED <<tf, queryTF, stage, pos, array, encrTF, encrQuery, score>>

Multiplied ==
  /\ stage = "multiply"
  /\ Len(encrTF) = Len(encrQuery)
  /\ Len(scores) = Len(encrTF)
  /\ stage' = "decrypt"
  /\ UNCHANGED <<tf, queryTF, pos, array, encrTF, encrQuery, scores, score>>

\* Fault: the sizes are not compared.
MultiplyCommon ==
  /\ stage = "multiply"
  /\ Len(encrTF) # Len(encrQuery)
  /\ scores' = <<Times(encrTF[1], encrQuery[1])>>
  /\ stage' = "decrypt"
  /\ UNCHANGED <<tf, queryTF, pos, array, encrTF, encrQuery, score>>

\* There are no scores for arrays of different size; the document keeps 0.
SizesDiffer ==
  /\ stage = "multiply"
  /\ Len(encrTF) # Len(encrQuery)
  /\ stage' = "done"
  /\ UNCHANGED <<tf, queryTF, pos, array, encrTF, encrQuery, scores, score>>

\* The values of all slots of all ciphertexts, one after the other.
Decrypted(p) == scores[((p - 1) \div NSlots) + 1][((p - 1) % NSlots) + 1]

\* Fault: the sum is a number modulo P like the numbers added.
AddModulo ==
  /\ stage = "decrypt"
  /\ pos < Len(scores) * NSlots
  /\ pos' = pos + 1
  /\ score' = (score + Decrypted(pos + 1)) % P
  /\ UNCHANGED <<tf, queryTF, stage, array, encrTF, encrQuery, scores>>

\* All slots, the filled up ones too, are added as long integers.
Add ==
  /\ stage = "decrypt"
  /\ pos < Len(scores) * NSlots
  /\ pos' = pos + 1
  /\ score' = score + Decrypted(pos + 1)
  /\ UNCHANGED <<tf, queryTF, stage, array, encrTF, encrQuery, scores>>

Added ==
  /\ stage = "decrypt"
  /\ pos = Len(scores) * NSlots
  /\ stage' = "done"
  /\ UNCHANGED <<tf, queryTF, pos, array, encrTF, encrQuery, scores, score>>

Done == stage = "done" /\ UNCHANGED heVars

HENext ==
  \/ EncryptFull \/ EncryptReminder \/ Encrypted
  \/ Multiply \/ Multiplied \/ SizesDiffer
  \/ Add \/ Added
  \/ Done

HESpec == HEInit /\ [][HENext]_heVars

-----------------------------------------------------------------------------
\* The scalar products of the first values of two vectors.
Shorter(u, v) == IF Len(u) < Len(v) THEN Len(u) ELSE Len(v)

ScalarProducts(u, v) ==
  LET S[i \in 0 .. Shorter(u, v)] == IF i = 0 THEN 0 ELSE S[i - 1] + u[i] * v[i]
  IN  S

Common  == Shorter(tf, queryTF)
Product == ScalarProducts(tf, queryTF)[Common]

\* As long as no product reaches the prime, the score of a document is the
\* scalar product of its TF values with the query's: cutting and filling up
\* neither lose a value nor add one nor put two together that do not belong
\* together.
ScoreIsProduct ==
  stage = "done" /\ Len(tf) = Len(queryTF) /\ (\A i \in DOMAIN tf : tf[i] * queryTF[i] < P)
    => score = Product

\* Products that reach the prime make a score smaller, by a multiple of it.
\* Vectors made with dictionaries of different sizes are told from each other
\* when they differ by a ciphertext or more, and give no scores; otherwise the
\* words only one of them has count nothing, and nothing else is lost.
DifferentSizes ==
  stage = "done" =>
    LET a == Len(tf) b == Len(queryTF)
    IN  /\ (a - b >= NSlots \/ b - a >= NSlots) => scores = <<>> /\ score = 0
        /\ scores # <<>> => score <= Product /\ (Product - score) % P = 0
        /\ a = b => scores # <<>>

=============================================================================
