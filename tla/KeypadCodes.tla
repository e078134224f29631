----------------------------- MODULE KeypadCodes -----------------------------
(***************************************************************************)
(* Keypad code encryption: the settings page stores modulus, multiplier    *)
(* and offset, NukiWrapper::readSettings copies them and computes the      *)
(* inverse multiplier, and the keypad handler decrypts the code of an      *)
(* "add" command (CryptoUtils.h, NukiWrapper.cpp, WebCfgServer.cpp).       *)
(*                                                                         *)
(* The page is processed by webCfgTask, one argument and one member at a   *)
(* time; the command arrives in networkTask.  Numbers are scaled down:     *)
(* codes have CodeLen digits below Radix instead of six decimal ones, and  *)
(* machine words Bits bits instead of 32.                                  *)
(***************************************************************************)
EXTENDS Integers

CONSTANTS Radix, CodeLen,           \* 10 and 6 in the code
          Bits,                     \* 32 in the code
          DefaultMult, DefaultOff,  \* 73 and 12345 in the code
          Entered,                  \* numbers the user may enter on the page
          Unset                     \* never written: a preference, or a member of the wrapper

Word == 2^Bits
LowCode == Radix^(CodeLen - 1)   \* 100000
HighCode == Radix^CodeLen        \* 1000000
MaxLong == Word \div 2 - 1       \* 2147483647

ASSUME KeypadAssumption ==
  /\ Radix \in Nat /\ Radix > 1 /\ CodeLen \in Nat \ {0} /\ Bits \in Nat
  /\ LowCode \in Nat \ {0} /\ HighCode \in Nat /\ LowCode < HighCode
  /\ Word \in Nat /\ MaxLong \in Nat /\ 2 * MaxLong < Word /\ HighCode <= MaxLong
  /\ DefaultMult \in 2..(LowCode - 1) /\ DefaultOff \in 1..(LowCode - 1)
  /\ Entered \subseteq 0..(Word - 1) /\ Unset \notin Int

VARIABLES
  stored,   \* the preferences
  loaded,   \* _keypadCodeModulus, -Multiplier, -Offset and -Inverse
  page,     \* what webCfgTask does next (the setup, while the program starts)
  euclid,   \* the variables of modInverse
  command   \* a keypad command, its code and what became of it, till the next step

vars == <<stored, loaded, page, euclid, command>>

NoCommand == [code |-> 0, agreed |-> FALSE, codeInt |-> 0, answer |-> "none"]

-----------------------------------------------------------------------------
(***************************************************************************)
(* CryptoUtils.h                                                           *)
(***************************************************************************)

\* The client encrypts by this formula, with whole numbers (README, Keypad Code
\* Encryption) ...
Formula(code, key) == ((code * key.mult + key.off) % key.mod) + key.mod

\* ... or as encryptKeypadCode does: product and sums wrap at the word.
Encrypt(code, key) == ((((code * key.mult + key.off) % Word) % key.mod) + key.mod) % Word

\* The function's product does not wrap: multipliers up to 4294 for six digits.
Fits(code, key) == code * key.mult + key.off < Word

Shifted(code, key) == ((code - key.off) % Word) % key.mod

DecryptNarrow(code, key) ==  \* mutant: the product is not widened to 64 bits
  IF key.inv = 0 THEN 0 ELSE ((Shifted(code, key) * key.inv) % Word) % key.mod

\* The difference wraps at the word; the product has 64 bits.
Decrypt(code, key) ==
  IF key.inv = 0 THEN 0 ELSE (Shifted(code, key) * key.inv) % key.mod

\* getGCD finds the same divisors; here by their definition.
Coprime(a, b) == \A d \in 2..b : ~(a % d = 0 /\ b % d = 0)

-----------------------------------------------------------------------------
(***************************************************************************)
(* The settings page.  The arguments come in the order of its fields.      *)
(***************************************************************************)
OrElse(value, default) == IF value = Unset THEN default ELSE value

\* What the page shows and the client is set up with: its default for the
\* modulus is not that of the wrapper.
Shown == [mod |-> OrElse(stored.mod, LowCode + 1),
          mult |-> OrElse(stored.mult, DefaultMult),
          off |-> OrElse(stored.off, DefaultOff)]

\* An argument is stored if it differs and its key allows it, or it is not sent.
Save(from, field, allowed, to) ==
  /\ page = from /\ page' = to /\ command' = NoCommand
  /\ \/ UNCHANGED stored
     \/ \E val \in allowed \cap Entered : val # OrElse(stored[field], 0)
                                       /\ stored' = [stored EXCEPT ![field] = val]
  /\ UNCHANGED <<loaded, euclid>>

\* currentMod - 1: without a modulus the greatest number of a word.
LastBelowMod == (OrElse(stored.mod, 0) - 1) % Word

OpenPage == /\ page = "idle" /\ page' = "KPMOD" /\ command' = NoCommand
            /\ UNCHANGED <<stored, loaded, euclid>>

SaveModFromZero ==  \* mutant: the lower bound is not checked
  Save("KPMOD", "mod", 1..MaxLong, "KPMULT")

SaveMod == Save("KPMOD", "mod", (LowCode + 1)..MaxLong, "KPMULT")

\* getGCD(val, 0) is val, not 1.
SaveMult == Save("KPMULT", "mult",
                 {val \in 2..LastBelowMod : stored.mod # Unset /\ Coprime(val, stored.mod)},
                 "KPOFF")

SaveOff == Save("KPOFF", "off", 1..LastBelowMod, "mult")

-----------------------------------------------------------------------------
(***************************************************************************)
(* readSettings, in the setup and at the end of processArgs               *)
(***************************************************************************)
Load(from, field, value, to) ==
  /\ page = from /\ page' = to /\ command' = NoCommand
  /\ loaded' = [loaded EXCEPT ![field] = value]
  /\ UNCHANGED <<stored, euclid>>

LoadMult == Load("mult", "mult", OrElse(stored.mult, DefaultMult), "off")
LoadOff == Load("off", "off", OrElse(stored.off, DefaultOff), "mod")
LoadMod == Load("mod", "mod", OrElse(stored.mod, HighCode), "inv")

\* modInverse(a, m); a modulus is never 1 or less.
Begin(a, m) ==
  /\ page = "inv" /\ page' = "divide" /\ command' = NoCommand
  /\ euclid' = [oldR |-> a, r |-> m, oldS |-> 1, s |-> 0]
  /\ UNCHANGED <<stored, loaded>>

StartInverseOfShown == Begin(loaded.mult, Shown.mod)  \* mutant: of the modulus the page shows

StartInverse == Begin(loaded.mult, loaded.mod)

\* A turn of the loop; no value leaves the 64 bits (TypeOK).
Divide ==
  /\ page = "divide" /\ euclid.r # 0 /\ command' = NoCommand
  /\ LET q == euclid.oldR \div euclid.r
     IN euclid' = [oldR |-> euclid.r, r |-> euclid.oldR - q * euclid.r,
                   oldS |-> euclid.s, s |-> euclid.oldS - q * euclid.s]
  /\ UNCHANGED <<stored, loaded, page>>

\* What the loop found: the inverse, or 0 if there is none.
Inverse ==
  CASE euclid.oldR # 1 -> 0
    [] euclid.oldR = 1 /\ euclid.oldS < 0 -> euclid.oldS + loaded.mod
    [] euclid.oldR = 1 /\ euclid.oldS >= 0 -> euclid.oldS

LoadInv == euclid.r = 0 /\ Load("divide", "inv", Inverse, "idle")

-----------------------------------------------------------------------------
(***************************************************************************)
(* The keypad handler                                                      *)
(***************************************************************************)
HasZero[n \in Nat] == n % Radix = 0 \/ (n >= Radix /\ HasZero[n \div Radix])

\* Codes that a keypad takes.
Codes == {code \in LowCode..(HighCode - 1) : ~HasZero[code]}

\* String::toInt gives the greatest long for a greater number.
ToInt(n) == IF n > MaxLong THEN MaxLong ELSE n

\* The test for a digit 0 looks at the text, which is encrypted.
Answer(text, codeInt) ==
  CASE codeInt = 0 -> "MissingParameterCode"
    [] codeInt # 0 /\ (codeInt <= LowCode \/ codeInt >= HighCode \/ HasZero[text]) -> "CodeInvalid"
    [] OTHER -> "added"

IsInverse(inv, a, m) == inv \in 1..(m - 1) /\ (a * inv) % m = 1

\* The new settings are partly loaded: the inverse is that of the old ones.
Reloading == page \in {"off", "mod", "inv", "divide"}

\* Client and bridge use the same settings, all of them loaded, which keep the
\* README's constraints; the encrypted code is a long, and the code is below the
\* modulus.
Agreed(code) ==
  /\ loaded.mod = Shown.mod /\ loaded.mult = Shown.mult /\ loaded.off = Shown.off
  /\ ~Reloading /\ Coprime(loaded.mult, loaded.mod) /\ loaded.off < loaded.mod
  /\ code < loaded.mod /\ 2 * loaded.mod <= MaxLong

\* What the handler makes of a code that was encrypted to text; due tells
\* whether the encryption was the README's.
Received(code, text, due) ==
  LET codeInt == Decrypt(ToInt(text), loaded)
  IN command' = [code |-> code, agreed |-> Agreed(code) /\ due, codeInt |-> codeInt,
                 answer |-> Answer(text, codeInt)]

\* networkTask runs when the setup has loaded the settings.
Add == /\ loaded.inv # Unset
       /\ \E code \in Codes :
            \/ Received(code, Formula(code, Shown), TRUE)
            \/ Received(code, Encrypt(code, Shown), Fits(code, Shown))
       /\ UNCHANGED <<stored, loaded, page, euclid>>

-----------------------------------------------------------------------------
Init ==
  /\ stored = [mod |-> Unset, mult |-> Unset, off |-> Unset]
  /\ loaded = [mod |-> Unset, mult |-> Unset, off |-> Unset, inv |-> Unset]
  /\ page = "mult"
  /\ euclid = [oldR |-> 0, r |-> 0, oldS |-> 0, s |-> 0]
  /\ command = NoCommand

Next == \/ OpenPage \/ SaveMod \/ SaveMult \/ SaveOff
        \/ LoadMult \/ LoadOff \/ LoadMod
        \/ StartInverse \/ Divide \/ LoadInv \/ Add

Spec == Init /\ [][Next]_vars

-----------------------------------------------------------------------------
(***************************************************************************)
(* Properties                                                              *)
(***************************************************************************)
Moduli == (LowCode + 1)..MaxLong
Words == 0..(Word - 1)

\* The cofactors of modInverse stay within the modulus, so that 64 bits are enough.
TypeOK ==
  /\ stored \in [mod : Moduli \cup {Unset}, mult : Words \cup {Unset},
                 off : Words \cup {Unset}]
  /\ loaded \in [mod : Moduli \cup {Unset}, mult : Words \cup {Unset},
                 off : Words \cup {Unset}, inv : Words \cup {Unset}]
  /\ page \in {"idle", "KPMOD", "KPMULT", "KPOFF", "mult", "off", "mod", "inv", "divide"}
  /\ euclid \in [oldR : Words, r : Words, oldS : -MaxLong..MaxLong, s : -MaxLong..MaxLong]
  /\ command \in [code : Nat, agreed : BOOLEAN, codeInt : Nat,
                  answer : {"none", "added", "MissingParameterCode", "CodeInvalid"}]

\* When readSettings is done, the inverse is the one that exists, or 0
\* (modInverse, readSettings), also for a multiplier that is not coprime to the
\* modulus or is greater.
InverseExact ==
  loaded.inv # Unset /\ ~Reloading =>
    IF Coprime(loaded.mult, loaded.mod)
    THEN IsInverse(loaded.inv, loaded.mult, loaded.mod)
    ELSE loaded.inv = 0

\* A code below the modulus, encrypted and decrypted with the same settings, is the
\* code again (decryptKeypadCode), whatever page or command came before: encrypted
\* by the README's formula always, by encryptKeypadCode while its product does not
\* wrap.  It promises nothing of a command that meets half-loaded settings.
DecryptedRight == command.agreed => command.codeInt = command.code

\* README, Keypad Code Encryption: "Constraints (enforced): [...] Multiplier [...]
\* must be coprime to modulus".
ConstraintsEnforced ==
  stored.mod # Unset /\ stored.mult # Unset => Coprime(stored.mult, stored.mod)
=============================================================================
