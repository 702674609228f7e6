---------------------------- MODULE StartupProofs ----------------------------
(***************************************************************************)
(* One database file through starts, migrations, rotations and crashes,    *)
(* any number of them.  First the key alone: that the gateway reads all it *)
(* has stored, for any jobs and keys; the inductive invariant is that one  *)
(* key has all of it, instantiated with the key of the step, the one that  *)
(* stays or the one that is rotated to.  What holds of the key alone holds *)
(* of key and file together, as a step of Startup is one of EncryptionKey  *)
(* or leaves it alone.  Then the file: no gateway serves without it, and   *)
(* what migrate() makes of it is what Migration allows.                    *)
(***************************************************************************)
EXTENDS Startup, SequenceTheorems, TLAPS

-----------------------------------------------------------------------------
(* The key *)

\* Everything that is stored is under k, and a process that serves has it.
AllUnder(k) ==
  /\ Under(k)
  /\ sentinel \in {k, NoKey}
  /\ \A j \in Jobs : digest[j] \in {k, NoKey}
  /\ gateway.at = "up" => gateway.key = k /\ sentinel = k

\* A process whose start succeeds has the key everything is under.
LEMMA StartSound ==
  ASSUME EncryptionTypeOK, NEW k \in Keys, AllUnder(k), AssertEncryptionKey
  PROVE  EncryptionTypeOK' /\ \E q \in Keys : AllUnder(q)'
<1> USE NoKeyAssumption
<1>1. CASE Goes
  <2>1. EncryptionTypeOK'
    BY <1>1 DEF EncryptionTypeOK, Goes, Rows
  <2>2. AllUnder(k)'
    BY <1>1 DEF EncryptionTypeOK, AllUnder, Under, Stored, Goes, Rows
  <2> QED BY <2>1, <2>2
<1>2. CASE ComesUp /\ (Stored = {} \/ gateway.key = k)
  <2>1. EncryptionTypeOK'
    BY <1>2 DEF EncryptionTypeOK, ComesUp, Rows
  <2>2. Under(gateway.key) /\ \A j \in Jobs : digest[j] \in {gateway.key, NoKey}
    BY <1>2 DEF EncryptionTypeOK, AllUnder, Under, Stored
  <2>3. gateway.key \in Keys /\ gateway'.key = gateway.key
    BY <1>2 DEF EncryptionTypeOK, ComesUp
  <2>4. AllUnder(gateway.key)'
    BY <1>2, <2>2, <2>3 DEF AllUnder, Under, Stored, ComesUp, Rows
  <2>5. PICK q \in Keys : q = gateway.key
    BY <2>3
  <2> QED BY <2>1, <2>3, <2>4, <2>5 DEF AllUnder, Under, Stored
<1>3. Goes \/ (ComesUp /\ (Stored = {} \/ gateway.key = k))
  BY DEF AssertEncryptionKey, Bootstraps, Compares, AllUnder, Under
<1> QED BY <1>1, <1>2, <1>3

\* What the store writes is under the key of the process that writes it.
LEMMA StoreSound ==
  ASSUME EncryptionTypeOK, NEW k \in Keys, AllUnder(k), NEW j \in Jobs,
         Submit(j) \/ Write(j) \/ Prune(j)
  PROVE  EncryptionTypeOK' /\ AllUnder(k)'
<1> USE NoKeyAssumption
<1>1. gateway.key = k /\ sentinel = k /\ gateway.at = "up"
  BY DEF AllUnder, Submit, Write, Prune
<1>2. EncryptionTypeOK'
  BY <1>1 DEF EncryptionTypeOK, Stored, Submit, Write, Prune
<1>3. AllUnder(k)'
  BY <1>1 DEF EncryptionTypeOK, AllUnder, Under, Stored, Submit, Write, Prune
<1> QED BY <1>2, <1>3

\* A rotation leaves nothing under the old key.
LEMMA RotationSound ==
  ASSUME EncryptionTypeOK, NEW k \in Keys, AllUnder(k),
         NEW current \in Keys, NEW next \in Keys, Rotate(current, next)
  PROVE  EncryptionTypeOK' /\ AllUnder(next)'
<1> USE NoKeyAssumption
<1>1. EncryptionTypeOK'
  BY DEF EncryptionTypeOK, Stored, Rotate, Forgets
<1>2. AllUnder(next)'
  BY DEF EncryptionTypeOK, AllUnder, Under, Stored, Rotate, Forgets
<1> QED BY <1>1, <1>2

LEMMA StepSound ==
  ASSUME EncryptionTypeOK, OneKey, [Next]_vars
  PROVE  EncryptionTypeOK' /\ OneKey'
<1> USE NoKeyAssumption
<1>1. PICK k \in Keys : AllUnder(k)
  BY DEF OneKey, AllUnder
<1>2. SUFFICES EncryptionTypeOK' /\ \E q \in Keys : AllUnder(q)'
  BY DEF OneKey, AllUnder, Under, Stored
<1>3. CASE Launch \/ Ends \/ (\E q \in Keys : ReplaceKey(q)) \/ UNCHANGED vars
  <2>1. EncryptionTypeOK'
    BY <1>3 DEF EncryptionTypeOK, Launch, Ends, Goes, ReplaceKey, Rows, vars
  <2>2. AllUnder(k)'
    BY <1>1, <1>3 DEF EncryptionTypeOK, AllUnder, Under, Stored, Launch, Ends, Goes, ReplaceKey, Rows, vars
  <2> QED BY <2>1, <2>2
<1>4. CASE AssertEncryptionKey
  BY <1>1, <1>4, StartSound
<1>5. CASE \E j \in Jobs : Submit(j) \/ Write(j) \/ Prune(j)
  BY <1>1, <1>5, StoreSound
<1>6. CASE \E current, next \in Keys : Rotate(current, next)
  BY <1>1, <1>6, RotationSound
<1> QED BY <1>3, <1>4, <1>5, <1>6 DEF Next

\* All that is stored is under one key at all times, whatever the operator puts
\* into the Keychain: assertEncryptionKey and rotateEncryptedPayloads keep it so.
THEOREM OneKeyAlways == Spec => [](EncryptionTypeOK /\ OneKey)
<1>1. Init => EncryptionTypeOK /\ OneKey
  BY NoKeyAssumption DEF Init, EncryptionTypeOK, OneKey, Under, Stored
<1>2. EncryptionTypeOK /\ OneKey /\ [Next]_vars => EncryptionTypeOK' /\ OneKey'
  BY StepSound
<1> QED BY <1>1, <1>2, PTL DEF Spec

\* A gateway that serves can decrypt every payload it finds.
THEOREM EverythingReadable == Spec => []Readable
<1>1. EncryptionTypeOK /\ OneKey => Readable
  BY DEF OneKey, Readable
<1> QED BY <1>1, OneKeyAlways, PTL

\* A retried request meets its own record only under the key it was hashed with.
THEOREM RetriesAlwaysRecognised == Spec => []RetriesRecognised
<1>1. EncryptionTypeOK /\ OneKey => RetriesRecognised
  BY DEF OneKey, RetriesRecognised
<1> QED BY <1>1, OneKeyAlways, PTL

-----------------------------------------------------------------------------
(* The key and the file *)

LEMMA StepOfKey ==
  ASSUME [StartNext]_all
  PROVE  [Next]_vars
<1>1. CASE Starts
  BY <1>1 DEF Starts, Next
<1>2. CASE Climbs
  BY <1>2 DEF Climbs
<1>3. CASE ChecksKey
  BY <1>3 DEF ChecksKey, Next
<1>4. CASE Stops
  BY <1>4 DEF Stops, Next
<1>5. CASE Crashes
  BY <1>5 DEF Crashes, Next
<1>6. CASE Serves
  BY <1>6 DEF Serves, Next
<1>7. CASE ScriptOpens
  BY <1>7 DEF ScriptOpens
<1>8. CASE ScriptRotates
  BY <1>8 DEF ScriptRotates, Next
<1>9. CASE Replaces
  BY <1>9 DEF Replaces, Next
<1>10. CASE UNCHANGED all
  BY <1>10 DEF all
<1> QED
  BY <1>1, <1>2, <1>3, <1>4, <1>5, <1>6, <1>7, <1>8, <1>9, <1>10 DEF StartNext

\* Whatever the start of the gateway, the rotation script and crashes do with the
\* file, the keys change only as EncryptionKey says.
THEOREM StartupImplementsKey == StartSpec => Spec
<1>1. StartInit => Init
  BY DEF StartInit
<1> QED BY <1>1, StepOfKey, PTL DEF StartSpec, Spec

\* A gateway that serves can decrypt every payload it finds, through crashes
\* between any two statements of a migration and rotations by the script.
THEOREM ServedIsReadable == StartSpec => []Readable
BY StartupImplementsKey, EverythingReadable, PTL

-----------------------------------------------------------------------------
\* The file is open under a gateway that serves, and its key is in there; the last
\* two conjuncts are the shapes of the records, which EXCEPT depends on.
HoldsFile ==
  /\ gateway.at = "up" => process.at = "open" /\ sentinel = gateway.key
  /\ process = [at |-> process.at, todo |-> process.todo]
  /\ gateway = [at |-> gateway.at, key |-> gateway.key]

LEMMA HoldsFileKept ==
  ASSUME HoldsFile, [StartNext]_all
  PROVE  HoldsFile'
<1> USE DEF HoldsFile
<1>1. CASE Starts
  BY <1>1 DEF Starts, Launch, Schema!Open
<1>2. CASE Climbs
  <2>1. process.at = "migrating" /\ UNCHANGED vars
    BY <1>2 DEF Climbs, Schema!Execute, Schema!Opened
  <2>2. process' = [at |-> process'.at, todo |-> process'.todo]
    BY <1>2 DEF Climbs, Schema!Execute, Schema!Opened
  <2> QED BY <2>1, <2>2 DEF vars
<1>3. CASE ChecksKey
  <2>1. process.at = "open" /\ (Goes \/ ComesUp)
    BY <1>3 DEF ChecksKey, AssertEncryptionKey, Bootstraps, Compares
  <2>2. gateway'.at = "up" => UNCHANGED process
    BY <1>3 DEF ChecksKey, file
  <2>3. process' = [at |-> process'.at, todo |-> process'.todo]
    BY <1>3 DEF ChecksKey, file, Schema!Close
  <2> QED BY <2>1, <2>2, <2>3 DEF Goes, ComesUp
<1>4. CASE Stops \/ Crashes
  <2>1. process' = [at |-> process'.at, todo |-> process'.todo]
    BY <1>4 DEF Stops, Crashes, Schema!Close, Schema!Crash
  <2>2. (gateway.at = "down" /\ UNCHANGED vars) \/ Goes
    BY <1>4 DEF Stops, Crashes, Ends
  <2> QED BY <2>1, <2>2 DEF vars, Goes
<1>5. CASE Serves
  BY <1>5 DEF Serves, Submit, Write, Prune, file
<1>6. CASE ScriptOpens
  BY <1>6 DEF ScriptOpens, Schema!Open, vars
<1>7. CASE ScriptRotates
  BY <1>7 DEF ScriptRotates, Rotate, file
<1>8. CASE Replaces
  BY <1>8 DEF Replaces, ReplaceKey, file
<1>9. CASE UNCHANGED all
  BY <1>9 DEF all, vars, file
<1> QED
  BY <1>1, <1>2, <1>3, <1>4, <1>5, <1>6, <1>7, <1>8, <1>9 DEF StartNext

\* No gateway serves but on a file that openDatabase has opened and that nobody has
\* closed since, nor with another key than the one it has left there.
THEOREM GatewayHoldsFile == StartSpec => []HoldsFile
<1>1. StartInit => HoldsFile
  BY DEF StartInit, Init, Schema!Init, HoldsFile
<1> QED BY <1>1, HoldsFileKept, PTL DEF StartSpec

-----------------------------------------------------------------------------
(* The file *)

\* After the first i statements of todo a part is in a file that had these parts.
Brought(part, todo, i, parts) == part \in parts \/ \E k \in 1 .. i : part \in todo[k].adds

\* The statements bring a file with these parts from version v to version w: each
\* version they set is higher than the one before and true when it is set, and the
\* last of them is w.
Leads(todo, parts, v, w) ==
  /\ \A i \in 1 .. Len(todo) :
       LET set == todo[i].sets IN
       set # 0 =>
         /\ v < set
         /\ \A k \in 1 .. i - 1 : todo[k].sets < set
         /\ \A part \in Schema!PartsOf(set) : Brought(part, todo, i, parts)
  /\ IF todo = <<>> THEN v = w ELSE todo[Len(todo)].sets = w

\* What is left to do brings the file to the version of this binary.
ClimbsToLatest ==
  process.at = "migrating" => Leads(process.todo, schema, version, Schema!Latest)

\* Nobody opens the file of a later gateway.
LaterIsLeft == version > Schema!Latest => process.at \in {"down", "refused"}

FileInd == Schema!MigrationInv /\ ClimbsToLatest /\ LaterIsLeft

LEMMA StatementsTyped ==
  ASSUME NEW todo \in Seq(Schema!Statement)
  PROVE  /\ Len(todo) \in Nat
         /\ \A i \in 1 .. Len(todo) :
              /\ todo[i] \in Schema!Statement /\ todo[i].sets \in 0 .. Schema!Latest
              /\ todo[i].adds \subseteq Schema!Part
<1>1. Len(todo) \in Nat /\ \A i \in 1 .. Len(todo) : todo[i] \in Schema!Statement
  OBVIOUS
<1>2. \A next \in Schema!Statement :
        next.sets \in 0 .. Schema!Latest /\ next.adds \subseteq Schema!Part
  BY DEF Schema!Statement
<1> QED
  BY <1>1, <1>2

\* The next statement is done, and the rest leads on from there.
LEMMA LeadsOn ==
  ASSUME NEW todo \in Seq(Schema!Statement), todo # <<>>,
         NEW parts \in SUBSET Schema!Part, NEW v \in Nat, NEW w \in Nat \ {0},
         Leads(todo, parts, v, w)
  PROVE  LET next == Head(todo) IN
         /\ Tail(todo) \in Seq(Schema!Statement)
         /\ Leads(Tail(todo), parts \cup next.adds, IF next.sets = 0 THEN v ELSE next.sets, w)
         /\ next \in Schema!Statement
         /\ next.sets # 0 => v < next.sets /\ Schema!PartsOf(next.sets) \subseteq parts \cup next.adds
<1> DEFINE next == Head(todo)
           rest == Tail(todo)
           more == parts \cup next.adds
           at == IF next.sets = 0 THEN v ELSE next.sets
<1>1. /\ next = todo[1] /\ next \in Schema!Statement /\ Len(todo) \in Nat \ {0}
      /\ rest \in Seq(Schema!Statement) /\ Len(rest) = Len(todo) - 1
      /\ \A i \in 1 .. Len(rest) : rest[i] = todo[i + 1]
  BY HeadTailProperties
<1>2. \A i \in 1 .. Len(todo) : todo[i].sets \in 0 .. Schema!Latest
  BY StatementsTyped
<1> HIDE DEF next, rest
<1>3. next.sets # 0 => v < next.sets /\ Schema!PartsOf(next.sets) \subseteq more
  <2>1. 1 \in 1 .. Len(todo)
    BY <1>1
  <2>2. next.sets # 0 =>
          v < next.sets /\ \A part \in Schema!PartsOf(next.sets) : Brought(part, todo, 1, parts)
    BY <1>1, <2>1 DEF Leads
  <2>3. ASSUME NEW part, Brought(part, todo, 1, parts) PROVE part \in more
    BY <1>1, <2>3 DEF Brought
  <2> QED
    BY <2>2, <2>3
<1>4. ASSUME NEW i \in 1 .. Len(rest), rest[i].sets # 0
      PROVE  /\ at < rest[i].sets
             /\ \A k \in 1 .. i - 1 : rest[k].sets < rest[i].sets
             /\ \A part \in Schema!PartsOf(rest[i].sets) : Brought(part, rest, i, more)
  <2>1. i + 1 \in 1 .. Len(todo) /\ rest[i] = todo[i + 1]
    BY <1>1
  <2>2. /\ v < rest[i].sets
        /\ \A k \in 1 .. i : todo[k].sets < rest[i].sets
        /\ \A part \in Schema!PartsOf(rest[i].sets) : Brought(part, todo, i + 1, parts)
    BY <1>4, <2>1 DEF Leads
  <2>3. at < rest[i].sets
    BY <1>1, <2>2
  <2>4. \A k \in 1 .. i - 1 : rest[k].sets < rest[i].sets
    <3>1. ASSUME NEW k \in 1 .. i - 1 PROVE rest[k].sets < rest[i].sets
      <4>1. k + 1 \in 1 .. i /\ rest[k] = todo[k + 1]
        BY <1>1
      <4> QED
        BY <2>2, <4>1
    <3> QED
      BY <3>1
  <2>5. ASSUME NEW part \in Schema!PartsOf(rest[i].sets) PROVE Brought(part, rest, i, more)
    <3>1. Brought(part, todo, i + 1, parts)
      BY <2>2
    <3>2. CASE part \in parts
      BY <3>2 DEF Brought
    <3>3. ASSUME NEW k \in 1 .. i + 1, part \in todo[k].adds PROVE Brought(part, rest, i, more)
      <4>1. CASE k = 1
        BY <1>1, <3>3, <4>1 DEF Brought
      <4>2. CASE k # 1
        <5>1. k - 1 \in 1 .. i /\ rest[k - 1] = todo[k]
          BY <1>1, <4>2
        <5> QED
          BY <3>3, <5>1 DEF Brought
      <4> QED
        BY <4>1, <4>2
    <3> QED
      BY <3>1, <3>2, <3>3 DEF Brought
  <2> QED
    BY <2>3, <2>4, <2>5
<1>5. IF rest = <<>> THEN at = w ELSE rest[Len(rest)].sets = w
  <2>1. todo[Len(todo)].sets = w
    BY DEF Leads
  <2>2. CASE rest = <<>>
    <3>1. Len(rest) = 0 /\ Len(todo) = 1
      BY <1>1, <2>2
    <3> QED
      BY <1>1, <2>1, <2>2, <3>1
  <2>3. CASE rest # <<>>
    BY <1>1, <2>1, <2>3
  <2> QED
    BY <2>2, <2>3
<1>6. Leads(rest, more, at, w)
  BY <1>4, <1>5 DEF Leads
<1> QED
  BY <1>1, <1>3, <1>6 DEF next, rest

\* Two ladders make a longer one.
LEMMA LeadsFurther ==
  ASSUME NEW s \in Seq(Schema!Statement), NEW t \in Seq(Schema!Statement),
         NEW parts, NEW more, NEW v \in Nat, NEW w \in Nat \ {0}, NEW x \in Nat,
         v <= w, Leads(s, parts, v, w), Leads(t, more, w, x),
         \A part \in more : Brought(part, s, Len(s), parts)
  PROVE  /\ s \o t \in Seq(Schema!Statement)
         /\ Leads(s \o t, parts, v, x)
         /\ \A part : Brought(part, t, Len(t), more) => Brought(part, s \o t, Len(s \o t), parts)
<1> DEFINE st == s \o t
<1>1. /\ st \in Seq(Schema!Statement) /\ Len(st) = Len(s) + Len(t)
      /\ Len(s) \in Nat /\ Len(t) \in Nat
      /\ \A i \in 1 .. Len(s) : st[i] = s[i]
      /\ \A i \in 1 .. Len(t) : st[Len(s) + i] = t[i]
  OBVIOUS
<1>2. /\ \A i \in 1 .. Len(s) : s[i].sets \in Nat
      /\ \A i \in 1 .. Len(t) : t[i].sets \in Nat
  BY StatementsTyped
<1> HIDE DEF st
<1>3. ASSUME NEW i \in 1 .. Len(s) PROVE s[i].sets <= w
  <2>1. CASE i = Len(s)
    BY <1>2, <2>1 DEF Leads
  <2>2. CASE i # Len(s)
    <3>1. s # <<>> /\ Len(s) \in 1 .. Len(s) /\ i \in 1 .. Len(s) - 1
      BY <1>1, <2>2
    <3>2. s[Len(s)].sets = w
      BY <3>1 DEF Leads
    <3>3. s[i].sets < w
      BY <3>1, <3>2 DEF Leads
    <3> QED
      BY <1>2, <3>3
  <2> QED
    BY <2>1, <2>2
<1>4. \A part, i : i \in 1 .. Len(s) /\ Brought(part, s, i, parts) => Brought(part, st, i, parts)
  BY <1>1 DEF Brought
<1>5. ASSUME NEW part \in more, NEW i \in 1 .. Len(t)
      PROVE  Brought(part, st, Len(s) + i, parts)
  <2>1. 1 .. Len(s) \subseteq 1 .. Len(s) + i
    BY <1>1
  <2>2. part \in parts \/ \E k \in 1 .. Len(s) : part \in s[k].adds
    BY DEF Brought
  <2>3. part \in parts \/ \E k \in 1 .. Len(s) + i : part \in st[k].adds
    BY <1>1, <2>1, <2>2
  <2> QED
    BY <2>3 DEF Brought
<1>6. ASSUME NEW part, NEW i \in 1 .. Len(t), Brought(part, t, i, more)
      PROVE  Brought(part, st, Len(s) + i, parts)
  <2>1. CASE part \in more
    BY <1>5, <2>1
  <2>2. ASSUME NEW k \in 1 .. i, part \in t[k].adds PROVE Brought(part, st, Len(s) + i, parts)
    <3>1. Len(s) + k \in 1 .. Len(s) + i /\ st[Len(s) + k] = t[k]
      BY <1>1
    <3> QED
      BY <2>2, <3>1 DEF Brought
  <2> QED
    BY <1>6, <2>1, <2>2 DEF Brought
<1>7. ASSUME NEW i \in 1 .. Len(st), st[i].sets # 0
      PROVE  /\ v < st[i].sets
             /\ \A k \in 1 .. i - 1 : st[k].sets < st[i].sets
             /\ \A part \in Schema!PartsOf(st[i].sets) : Brought(part, st, i, parts)
  <2>1. CASE i \in 1 .. Len(s)
    <3>1. st[i] = s[i] /\ \A k \in 1 .. i - 1 : st[k] = s[k]
      BY <1>1, <2>1
    <3> QED
      BY <1>4, <1>7, <2>1, <3>1 DEF Leads
  <2>2. CASE i \notin 1 .. Len(s)
    <3>1. PICK n \in 1 .. Len(t) : i = Len(s) + n
      <4>1. i - Len(s) \in 1 .. Len(t) /\ i = Len(s) + (i - Len(s))
        BY <1>1, <2>2
      <4> QED
        BY <4>1
    <3>2. st[i] = t[n] /\ t[n].sets \in Nat
      BY <1>1, <1>2, <3>1
    <3>3. /\ w < t[n].sets
          /\ \A k \in 1 .. n - 1 : t[k].sets < t[n].sets
          /\ \A part \in Schema!PartsOf(t[n].sets) : Brought(part, t, n, more)
      BY <1>7, <3>2 DEF Leads
    <3>4. v < st[i].sets
      BY <3>2, <3>3
    <3>5. ASSUME NEW k \in 1 .. i - 1 PROVE st[k].sets < st[i].sets
      <4>1. CASE k \in 1 .. Len(s)
        <5>1. st[k] = s[k] /\ s[k].sets <= w /\ s[k].sets \in Nat
          BY <1>1, <1>2, <1>3, <4>1
        <5> QED
          BY <3>2, <3>3, <5>1
      <4>2. CASE k \notin 1 .. Len(s)
        <5>1. k - Len(s) \in 1 .. n - 1 /\ k - Len(s) \in 1 .. Len(t)
              /\ k = Len(s) + (k - Len(s))
          BY <1>1, <3>1, <4>2
        <5>2. st[k] = t[k - Len(s)]
          BY <1>1, <5>1
        <5> QED
          BY <3>2, <3>3, <5>1, <5>2
      <4> QED
        BY <4>1, <4>2
    <3>6. \A part \in Schema!PartsOf(st[i].sets) : Brought(part, st, i, parts)
      BY <1>6, <3>1, <3>2, <3>3
    <3> QED
      BY <3>4, <3>5, <3>6
  <2> QED
    BY <2>1, <2>2
<1>8. IF st = <<>> THEN v = x ELSE st[Len(st)].sets = x
  <2>1. CASE t = <<>>
    <3>1. st = s /\ w = x
      BY <2>1 DEF st, Leads
    <3> QED
      BY <3>1 DEF Leads
  <2>2. CASE t # <<>>
    <3>1. Len(t) \in 1 .. Len(t) /\ Len(st) = Len(s) + Len(t) /\ Len(st) # 0
      BY <1>1, <2>2
    <3>2. st # <<>> /\ st[Len(st)] = t[Len(t)] /\ t[Len(t)].sets = x
      BY <1>1, <2>2, <3>1 DEF Leads
    <3> QED
      BY <3>2
  <2> QED
    BY <2>1, <2>2
<1>9. Leads(st, parts, v, x)
  BY <1>7, <1>8 DEF Leads
<1>10. ASSUME NEW part, Brought(part, t, Len(t), more) PROVE Brought(part, st, Len(st), parts)
  <2>1. CASE Len(t) \in 1 .. Len(t)
    BY <1>1, <1>6, <1>10, <2>1
  <2>2. CASE Len(t) \notin 1 .. Len(t)
    <3>1. part \in more /\ Len(st) = Len(s)
      BY <1>1, <1>10, <2>2 DEF Brought
    <3> QED
      BY <1>1, <3>1 DEF Brought
  <2> QED
    BY <2>1, <2>2
<1> QED
  BY <1>1, <1>9, <1>10 DEF st

\* A rung leads from its version to the next, and brings the parts that are new.
LEMMA RungLeads ==
  ASSUME NEW v \in 1 .. 5
  PROVE  /\ Schema!Rung(v) \in Seq(Schema!Statement)
         /\ Leads(Schema!Rung(v), Schema!PartsOf(v), v, v + 1)
         /\ \A part \in Schema!PartsOf(v + 1) :
              Brought(part, Schema!Rung(v), Len(Schema!Rung(v)), Schema!PartsOf(v))
<1> USE DEF Schema!Part, Schema!PartsOf, Schema!Statement, Schema!Add, Schema!AddMissing,
            Schema!SetVersion, Schema!Latest, Leads, Brought
<1>1. CASE v = 1
  BY <1>1 DEF Schema!Rung
<1>2. CASE v = 2
  BY <1>2 DEF Schema!Rung
<1>3. CASE v = 3
  BY <1>3 DEF Schema!Rung
<1>4. CASE v = 4
  BY <1>4 DEF Schema!Rung
<1>5. CASE v = 5
  BY <1>5 DEF Schema!Rung
<1> QED
  BY <1>1, <1>2, <1>3, <1>4, <1>5

\* One rung of the ladder more, or none for a file that is past it.
LEMMA OneRungMore ==
  ASSUME NEW v \in 1 .. 6, NEW k \in 1 .. 5, NEW s \in Seq(Schema!Statement), NEW w, NEW x,
         w = IF v <= k THEN k ELSE v,
         x = IF v <= k + 1 THEN k + 1 ELSE v,
         Leads(s, Schema!PartsOf(v), v, w),
         \A part \in Schema!PartsOf(w) : Brought(part, s, Len(s), Schema!PartsOf(v))
  PROVE  LET t == s \o (IF v <= k THEN Schema!Rung(k) ELSE <<>>) IN
         /\ t \in Seq(Schema!Statement)
         /\ Leads(t, Schema!PartsOf(v), v, x)
         /\ \A part \in Schema!PartsOf(x) : Brought(part, t, Len(t), Schema!PartsOf(v))
<1>1. CASE v <= k
  <2>1. w = k /\ x = k + 1 /\ w \in Nat \ {0} /\ x \in Nat /\ v <= w /\ v \in Nat
    BY <1>1
  <2>2. /\ Schema!Rung(k) \in Seq(Schema!Statement)
        /\ Leads(Schema!Rung(k), Schema!PartsOf(w), w, x)
        /\ \A part \in Schema!PartsOf(x) :
             Brought(part, Schema!Rung(k), Len(Schema!Rung(k)), Schema!PartsOf(w))
    BY <2>1, RungLeads
  <2>3. /\ s \o Schema!Rung(k) \in Seq(Schema!Statement)
        /\ Leads(s \o Schema!Rung(k), Schema!PartsOf(v), v, x)
        /\ \A part : Brought(part, Schema!Rung(k), Len(Schema!Rung(k)), Schema!PartsOf(w))
             => Brought(part, s \o Schema!Rung(k), Len(s \o Schema!Rung(k)), Schema!PartsOf(v))
    BY <2>1, <2>2, LeadsFurther
  <2> QED
    BY <1>1, <2>2, <2>3
<1>2. CASE ~(v <= k)
  <2>1. s \o <<>> = s /\ x = w
    BY <1>2
  <2> QED
    BY <1>2, <2>1
<1> QED
  BY <1>1, <1>2

LEMMA LadderLeads ==
  ASSUME NEW v \in 1 .. 6
  PROVE  /\ Schema!Ladder(v) \in Seq(Schema!Statement)
         /\ Leads(Schema!Ladder(v), Schema!PartsOf(v), v, Schema!Latest)
<1> DEFINE rung(k) == IF v <= k THEN Schema!Rung(k) ELSE <<>>
           top(k) == IF v <= k THEN k ELSE v
           Good(s, w) ==
             /\ s \in Seq(Schema!Statement)
             /\ Leads(s, Schema!PartsOf(v), v, w)
             /\ \A part \in Schema!PartsOf(w) : Brought(part, s, Len(s), Schema!PartsOf(v))
<1>1. Good(<<>>, top(1))
  <2>1. top(1) = v
    OBVIOUS
  <2>2. Len(<<>>) = 0 /\ <<>> \in Seq(Schema!Statement)
    OBVIOUS
  <2> QED
    BY <2>1, <2>2 DEF Leads, Brought
<1>2. ASSUME NEW k \in 1 .. 5, NEW s, Good(s, top(k)) PROVE Good(s \o rung(k), top(k + 1))
  BY <1>2, OneRungMore
<1> HIDE DEF Good, top
<1>3. PICK none : none = <<>> /\ Good(none, top(1))
  BY <1>1
<1>4. Good(none \o rung(1), top(2))
  <2>1. 1 \in 1 .. 5 /\ 1 + 1 = 2
    OBVIOUS
  <2>2. Good(none \o rung(1), top(1 + 1))
    BY <1>2, <1>3, <2>1
  <2> QED
    BY <2>1, <2>2
<1>5. Good((none \o rung(1)) \o rung(2), top(3))
  BY <1>2, <1>4
<1>6. Good(((none \o rung(1)) \o rung(2)) \o rung(3), top(4))
  BY <1>2, <1>5
<1>7. Good((((none \o rung(1)) \o rung(2)) \o rung(3)) \o rung(4), top(5))
  BY <1>2, <1>6
<1>8. Good(((((none \o rung(1)) \o rung(2)) \o rung(3)) \o rung(4)) \o rung(5), top(6))
  BY <1>2, <1>7
<1>9. none \o rung(1) = rung(1)
  BY <1>3, RungLeads
<1>10. Schema!Ladder(v) = (((rung(1) \o rung(2)) \o rung(3)) \o rung(4)) \o rung(5)
  BY DEF Schema!Ladder
<1>11. top(6) = Schema!Latest
  BY DEF top, Schema!Latest
<1> QED
  BY <1>8, <1>9, <1>10, <1>11 DEF Good

LEMMA CreateLeads ==
  /\ Schema!Create \in Seq(Schema!Statement)
  /\ Leads(Schema!Create, {}, 0, Schema!Latest)
BY DEF Schema!Create, Schema!Part, Schema!PartsOf, Schema!Statement, Schema!AddMissing,
   Schema!SetVersion, Schema!Latest, Leads, Brought

\* What is in the file already does no harm.
LEMMA LeadsFromMore ==
  ASSUME NEW todo, NEW parts, NEW more, parts \subseteq more, NEW v, NEW w,
         Leads(todo, parts, v, w)
  PROVE  Leads(todo, more, v, w)
BY DEF Leads, Brought

LEMMA AllParts == Schema!PartsOf(Schema!Latest) = Schema!Part
BY DEF Schema!PartsOf, Schema!Latest, Schema!Part

LEMMA NothingLeft ==
  ASSUME NEW at \in {"down", "migrating", "open", "refused"}
  PROVE  [at |-> at, todo |-> <<>>] \in
           [at: {"down", "migrating", "open", "refused"}, todo: Seq(Schema!Statement)]
<1> DEFINE none == <<>>
<1>1. none \in Seq(Schema!Statement)
  OBVIOUS
<1> HIDE DEF none
<1>2. [at |-> at, todo |-> none] \in
        [at: {"down", "migrating", "open", "refused"}, todo: Seq(Schema!Statement)]
  BY <1>1
<1> QED
  BY <1>2 DEF none

\* The file only gains: parts, and higher versions.
LEMMA FileStep ==
  ASSUME FileInd, [Schema!Next]_file
  PROVE  FileInd' /\ schema \subseteq schema' /\ version <= version'
<1> DEFINE Climbed == FileInd' /\ schema \subseteq schema' /\ version <= version'
<1>0. /\ schema \subseteq Schema!Part /\ version \in 0 .. 7 /\ version \in Nat
      /\ process \in [at: {"down", "migrating", "open", "refused"}, todo: Seq(Schema!Statement)]
      /\ process.at # "migrating" => process.todo = <<>>
      /\ crashes \in 0 .. MaxCrashes
      /\ Schema!VersionTruthful /\ Schema!OpenIsComplete /\ ClimbsToLatest /\ LaterIsLeft
  BY DEF FileInd, Schema!MigrationInv, Schema!MigrationTypeOK, Schema!Latest
<1> USE DEF FileInd, Schema!MigrationInv, Schema!MigrationTypeOK
<1>1. ASSUME UNCHANGED <<schema, version>>, crashes' \in 0 .. MaxCrashes,
             \/ process' = [at |-> "refused", todo |-> <<>>]
             \/ process' = [at |-> "down", todo |-> <<>>]
      PROVE  Climbed
  <2>0. process' \in [at: {"down", "migrating", "open", "refused"},
                      todo: Seq(Schema!Statement)]
    BY <1>1, NothingLeft
  <2>1. process'.at \in {"refused", "down"} /\ process'.todo = <<>>
    BY <1>1
  <2>2. Schema!MigrationTypeOK'
    BY <1>0, <1>1, <2>0, <2>1 DEF Schema!Latest
  <2>3. Schema!VersionTruthful' /\ Schema!OpenIsComplete' /\ ClimbsToLatest' /\ LaterIsLeft'
    BY <1>0, <1>1, <2>1
    DEF Schema!VersionTruthful, Schema!OpenIsComplete, ClimbsToLatest, LaterIsLeft
  <2>4. version <= version'
    BY <1>0, <1>1
  <2> QED
    BY <1>1, <2>2, <2>3, <2>4
<1>2. CASE Schema!Open
  <2>1. CASE version > Schema!Latest \/ (version = 0 /\ schema # {})
    BY <1>0, <1>1, <1>2, <2>1 DEF Schema!Open
  <2>2. CASE ~(version > Schema!Latest \/ (version = 0 /\ schema # {}))
    <3>1. PICK todo : process' = [at |-> "migrating", todo |-> todo]
                      /\ todo = IF version = 0 THEN Schema!Create ELSE Schema!Ladder(version)
      BY <1>2, <2>2 DEF Schema!Open
    <3>2. todo \in Seq(Schema!Statement) /\ Leads(todo, schema, version, Schema!Latest)
      <4>1. CASE version = 0
        BY <2>2, <3>1, <4>1, CreateLeads
      <4>2. CASE version # 0
        <5>1. version \in 1 .. 6 /\ Schema!PartsOf(version) \subseteq schema
          BY <1>0, <2>2, <4>2 DEF Schema!VersionTruthful, Schema!Latest
        <5> QED
          BY <3>1, <4>2, <5>1, LadderLeads, LeadsFromMore
      <4> QED
        BY <4>1, <4>2
    <3>3. UNCHANGED <<schema, version, crashes>>
      BY <1>2 DEF Schema!Open
    <3> QED
      BY <1>0, <2>2, <3>1, <3>2, <3>3
      DEF Schema!VersionTruthful, Schema!OpenIsComplete, ClimbsToLatest, LaterIsLeft
  <2> QED
    BY <2>1, <2>2
<1>3. CASE Schema!Execute
  <2> DEFINE next == Head(process.todo)
  <2>1. /\ process.at = "migrating" /\ process.todo # <<>>
        /\ process.todo \in Seq(Schema!Statement)
        /\ Leads(process.todo, schema, version, Schema!Latest)
        /\ version <= Schema!Latest /\ UNCHANGED crashes
    BY <1>0, <1>3 DEF Schema!Execute, ClimbsToLatest, LaterIsLeft, Schema!Latest
  <2>2. CASE process' = [at |-> "refused", todo |-> <<>>] /\ UNCHANGED <<schema, version>>
    BY <1>0, <1>1, <2>1, <2>2
  <2>3. CASE /\ schema' = schema \cup next.adds
             /\ version' = IF next.sets = 0 THEN version ELSE next.sets
             /\ process' = [process EXCEPT !.todo = Tail(@)]
    <3>1. /\ Tail(process.todo) \in Seq(Schema!Statement)
          /\ Leads(Tail(process.todo), schema', version', Schema!Latest)
          /\ next \in Schema!Statement
          /\ next.sets # 0 => version < next.sets /\ Schema!PartsOf(next.sets) \subseteq schema'
      <4>1. /\ Schema!Latest \in Nat \ {0} /\ schema \in SUBSET Schema!Part
        BY <1>0 DEF Schema!Latest
      <4> QED
        BY <1>0, <2>1, <2>3, <4>1, LeadsOn
    <3>2. next.sets \in 0 .. Schema!Latest /\ next.adds \subseteq Schema!Part
      BY <3>1 DEF Schema!Statement
    <3>3. process'.at = "migrating" /\ process'.todo = Tail(process.todo)
          /\ process' \in [at: {"down", "migrating", "open", "refused"},
                           todo: Seq(Schema!Statement)]
      BY <1>0, <2>1, <2>3, <3>1
    <3>4. /\ schema' \subseteq Schema!Part /\ schema \subseteq schema'
          /\ version' \in 0 .. Schema!Latest /\ version <= version'
      BY <1>0, <2>1, <2>3, <3>1, <3>2 DEF Schema!Latest
    <3>5. Schema!VersionTruthful'
      BY <1>0, <2>1, <2>3, <3>1, <3>4 DEF Schema!VersionTruthful
    <3>6. ClimbsToLatest' /\ LaterIsLeft' /\ Schema!OpenIsComplete'
      BY <3>1, <3>3, <3>4 DEF ClimbsToLatest, LaterIsLeft, Schema!OpenIsComplete, Schema!Latest
    <3> QED
      BY <1>0, <2>1, <3>3, <3>4, <3>5, <3>6 DEF Schema!Latest
  <2> QED
    BY <1>3, <2>2, <2>3 DEF Schema!Execute
<1>4. CASE Schema!Opened
  <2>1. /\ process.at = "migrating" /\ process.todo = <<>>
        /\ UNCHANGED <<schema, version, crashes>>
        /\ process'.at = "open" /\ process'.todo = <<>>
        /\ process' \in [at: {"down", "migrating", "open", "refused"},
                         todo: Seq(Schema!Statement)]
    BY <1>0, <1>4 DEF Schema!Opened
  <2>2. version = Schema!Latest
    BY <1>0, <2>1 DEF ClimbsToLatest, Leads
  <2>3. schema = Schema!Part
    <3>1. Schema!Latest <= Schema!Latest
      BY DEF Schema!Latest
    <3>2. Schema!PartsOf(version) \subseteq schema
      BY <1>0, <2>2, <3>1 DEF Schema!VersionTruthful
    <3> QED
      BY <1>0, <2>2, <3>2, AllParts
  <2> QED
    BY <1>0, <2>1, <2>2, <2>3
    DEF Schema!VersionTruthful, Schema!OpenIsComplete, ClimbsToLatest, LaterIsLeft, Schema!Latest
<1>5. CASE Schema!Crash
  BY <1>0, <1>1, <1>5, MaxCrashesAssumption DEF Schema!Crash
<1>6. CASE Schema!Close
  BY <1>0, <1>1, <1>6 DEF Schema!Close
<1>7. CASE UNCHANGED file
  BY <1>0, <1>7 DEF file, Schema!VersionTruthful, Schema!OpenIsComplete, ClimbsToLatest,
     LaterIsLeft
<1> QED
  BY <1>2, <1>3, <1>4, <1>5, <1>6, <1>7 DEF Schema!Next

LEMMA FileInit == StartInit => FileInd
<1> SUFFICES ASSUME StartInit PROVE FileInd
  OBVIOUS
<1>1. /\ version \in 0 .. Schema!Latest + 1 /\ schema = Schema!PartsOf(version)
      /\ process = [at |-> "down", todo |-> <<>>] /\ crashes = 0
  BY DEF StartInit, Schema!Init
<1>2. schema \subseteq Schema!Part
  BY <1>1 DEF Schema!PartsOf, Schema!Part
<1>3. process \in [at: {"down", "migrating", "open", "refused"}, todo: Seq(Schema!Statement)]
  BY <1>1, NothingLeft
<1>4. Schema!MigrationTypeOK
  BY <1>1, <1>2, <1>3, MaxCrashesAssumption DEF Schema!MigrationTypeOK
<1>5. Schema!VersionTruthful /\ Schema!OpenIsComplete /\ ClimbsToLatest /\ LaterIsLeft
  BY <1>1 DEF Schema!VersionTruthful, Schema!OpenIsComplete, ClimbsToLatest, LaterIsLeft
<1> QED
  BY <1>4, <1>5 DEF FileInd, Schema!MigrationInv

\* Whoever opens the file, the gateway or the script, opens it as Migration says.
LEMMA StepOfFile ==
  ASSUME [StartNext]_all
  PROVE  [Schema!Next]_file
<1>1. CASE Starts \/ ScriptOpens
  BY <1>1 DEF Starts, ScriptOpens, Schema!Next
<1>2. CASE Climbs
  BY <1>2 DEF Climbs, Schema!Next
<1>3. CASE ChecksKey
  BY <1>3 DEF ChecksKey, Schema!Next
<1>4. CASE Stops \/ Crashes
  BY <1>4 DEF Stops, Crashes, Schema!Next
<1>5. CASE Serves \/ ScriptRotates \/ Replaces
  BY <1>5 DEF Serves, ScriptRotates, Replaces
<1>6. CASE UNCHANGED all
  BY <1>6 DEF all
<1> QED
  BY <1>1, <1>2, <1>3, <1>4, <1>5, <1>6 DEF StartNext

\* Whatever the gateway, the script and crashes do, the file changes only as
\* Migration says: statement by statement, or not at all.
THEOREM StartupImplementsMigration == StartSpec => Schema!Spec
<1>1. StartInit => Schema!Init
  BY DEF StartInit
<1>2. [StartNext]_all => [Schema!Next]_(Schema!vars)
  BY StepOfFile DEF file, Schema!vars
<1> QED
  BY <1>1, <1>2, PTL DEF StartSpec, Schema!Spec

\* A sentinel is written with the file open, and then the column for it is there.
SentinelHasColumn == sentinel # NoKey => "sentinel" \in schema

StartupInd == FileInd /\ HoldsFile /\ SentinelHasColumn

LEMMA SentinelStep ==
  ASSUME FileInd, SentinelHasColumn, schema \subseteq schema', [StartNext]_all
  PROVE  SentinelHasColumn'
<1>1. CASE UNCHANGED sentinel
  BY <1>1 DEF SentinelHasColumn
<1>2. CASE process.at = "open"
  <2>1. "sentinel" \in schema
    BY <1>2 DEF FileInd, Schema!MigrationInv, Schema!OpenIsComplete, Schema!Part
  <2> QED
    BY <2>1 DEF SentinelHasColumn
<1>3. process.at = "open" \/ UNCHANGED sentinel
  <2>1. CASE Starts \/ Stops \/ Crashes
    BY <2>1 DEF Starts, Stops, Crashes, Launch, Ends, Goes, Rows, vars
  <2>2. CASE Climbs \/ ScriptOpens
    BY <2>2 DEF Climbs, ScriptOpens, vars
  <2>3. CASE ChecksKey \/ ScriptRotates
    BY <2>3 DEF ChecksKey, ScriptRotates
  <2>4. CASE Serves
    BY <2>4 DEF Serves, Submit, Write, Prune
  <2>5. CASE Replaces
    BY <2>5 DEF Replaces, ReplaceKey
  <2>6. CASE UNCHANGED all
    BY <2>6 DEF all, vars
  <2> QED
    BY <2>1, <2>2, <2>3, <2>4, <2>5, <2>6 DEF StartNext
<1> QED
  BY <1>1, <1>2, <1>3

LEMMA StartupInvariant == StartSpec => []StartupInd
<1>1. StartInit => StartupInd
  <2>1. StartInit => HoldsFile /\ SentinelHasColumn
    BY DEF StartInit, Init, Schema!Init, HoldsFile, SentinelHasColumn
  <2> QED
    BY <2>1, FileInit DEF StartupInd
<1>2. StartupInd /\ [StartNext]_all => StartupInd'
  BY StepOfFile, FileStep, HoldsFileKept, SentinelStep DEF StartupInd
<1> QED
  BY <1>1, <1>2, PTL DEF StartSpec

\* What a version number promises is in the file at all times, whatever crashes cut
\* short, an open database is complete, and the gateway serves on no other.
THEOREM StartupCorrect == StartSpec => []StartupInv
<1>1. StartupInd => StartupInv
  BY DEF StartupInd, StartupInv, FileInd, HoldsFile, SentinelHasColumn, ServesOnComplete,
     Schema!MigrationInv, Schema!OpenIsComplete
<1> QED
  BY <1>1, StartupInvariant, PTL

\* No start takes a database back, and none touches the file of a later gateway.
THEOREM NothingDowngrades == StartSpec => NeverDowngrades
<1> DEFINE Onward ==
      /\ schema \subseteq schema'
      /\ version <= version'
      /\ version > Schema!Latest =>
           UNCHANGED <<schema, version, prompt, others, digest, sentinel>>
<1>1. StartupInd /\ [StartNext]_all => Onward
  <2> SUFFICES ASSUME StartupInd, [StartNext]_all PROVE Onward
    OBVIOUS
  <2>1. schema \subseteq schema' /\ version <= version'
    BY StepOfFile, FileStep DEF StartupInd
  <2>2. ASSUME version > Schema!Latest
        PROVE  UNCHANGED <<schema, version, prompt, others, digest, sentinel>>
    <3>1. process.at \in {"down", "refused"} /\ gateway.at # "up"
      BY <2>2 DEF StartupInd, FileInd, LaterIsLeft, HoldsFile
    <3>2. UNCHANGED <<schema, version>>
      BY <3>1, StepOfFile DEF Schema!Next, Schema!Open, Schema!Execute, Schema!Opened,
         Schema!Crash, Schema!Close, file
    <3>3. UNCHANGED <<prompt, others, digest, sentinel>>
      <4>1. CASE Starts \/ Stops \/ Crashes
        BY <4>1 DEF Starts, Stops, Crashes, Launch, Ends, Goes, Rows, vars
      <4>2. CASE Climbs \/ ScriptOpens
        BY <4>2 DEF Climbs, ScriptOpens, vars
      <4>3. CASE ChecksKey \/ ScriptRotates
        BY <3>1, <4>3 DEF ChecksKey, ScriptRotates
      <4>4. CASE Serves
        BY <3>1, <4>4 DEF Serves, Submit, Write, Prune
      <4>5. CASE Replaces
        BY <4>5 DEF Replaces, ReplaceKey, Rows
      <4>6. CASE UNCHANGED all
        BY <4>6 DEF all, vars
      <4> QED
        BY <4>1, <4>2, <4>3, <4>4, <4>5, <4>6 DEF StartNext
    <3> QED
      BY <3>2, <3>3
  <2> QED
    BY <2>1, <2>2
<1> QED
  BY <1>1, StartupInvariant, PTL DEF StartSpec, NeverDowngrades
=============================================================================
