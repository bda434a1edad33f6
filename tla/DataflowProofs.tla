---------------------------- MODULE DataflowProofs ----------------------------
(***************************************************************************)
(* Proofs that what loading a package accepts is what executing it finds   *)
(* (Dataflow.tla over Package.tla and Manifest.tla), for every document,   *)
(* every request and every environment.                                    *)
(*                                                                         *)
(* The first part draws from the validation of a manifest the facts that   *)
(* execution rests on (Sound); the second proves DataflowInv inductive,    *)
(* one lemma to each part and kind of step; the third reads the properties *)
(* off it.                                                                 *)
(***************************************************************************)
EXTENDS Dataflow, FiniteSetTheorems, SequenceTheorems, TLAPS

-----------------------------------------------------------------------------
(* Maps and sequences *)

LEMMA PutIs ==
    ASSUME NEW f, NEW key, NEW value
    PROVE  /\ DOMAIN Put(f, key, value) = DOMAIN f \cup {key}
           /\ Put(f, key, value)[key] = value
           /\ \A k \in DOMAIN f : k # key => Put(f, key, value)[k] = f[k]
  BY DEF Put

LEMMA OverIs ==
    ASSUME NEW f, NEW g
    PROVE  /\ DOMAIN Over(f, g) = DOMAIN f \cup DOMAIN g
           /\ \A k \in DOMAIN f : Over(f, g)[k] = f[k]
           /\ \A k \in DOMAIN g : k \notin DOMAIN f => Over(f, g)[k] = g[k]
  BY DEF Over

LEMMA ArrayIs ==
    ASSUME NEW a, IsArray(a)
    PROVE  /\ Len(a) \in Nat
           /\ DOMAIN a = 1..Len(a)
           /\ a = [i \in 1..Len(a) |-> a[i]]
  BY DEF IsArray

\* An array read element by element is an array of the same length.
LEMMA ArrayRead ==
    ASSUME NEW n \in Nat, NEW f, DOMAIN f = 1..n, f = [i \in 1..n |-> f[i]]
    PROVE  IsArray(f) /\ Len(f) = n
  <1>1. \A i \in 1..n : f[i] \in ToSet(f)
    BY DEF ToSet
  <1>2. f \in Seq(ToSet(f))
    BY <1>1
  <1>3. QED
    BY <1>2, LenProperties DEF IsArray

LEMMA PairIs ==
    ASSUME NEW e, IsArray(e), Len(e) = 2
    PROVE  e = <<e[1], e[2]>>
  BY DEF IsArray

LEMMA AppendIs ==
    ASSUME NEW S, NEW s \in Seq(S), NEW x
    PROVE  ToSet(Append(s, x)) = ToSet(s) \cup {x}
  BY DEF ToSet

LEMMA TailIs ==
    ASSUME NEW S, NEW s \in Seq(S), s # <<>>, IsInjective(s)
    PROVE  /\ Head(s) \in ToSet(s)
           /\ Tail(s) \in Seq(S)
           /\ ToSet(Tail(s)) = ToSet(s) \ {Head(s)}
           /\ IsInjective(Tail(s))
  <1>1. /\ Len(s) \in Nat /\ Len(s) > 0 /\ DOMAIN s = 1..Len(s)
        /\ Tail(s) \in Seq(S)
        /\ Head(s) = s[1] /\ Len(Tail(s)) = Len(s) - 1
        /\ \A i \in 1..(Len(s) - 1) : Tail(s)[i] = s[i + 1]
    OBVIOUS
  <1>2. DOMAIN Tail(s) = 1..(Len(s) - 1)
    BY <1>1
  <1>3. \A i, j \in DOMAIN s : s[i] = s[j] => i = j
    BY DEF IsInjective
  <1>4. Head(s) \in ToSet(s)
    BY <1>1 DEF ToSet
  <1>5. ToSet(Tail(s)) \subseteq ToSet(s) \ {Head(s)}
    <2>1. \A i \in 1..(Len(s) - 1) : i + 1 \in DOMAIN s /\ 1 \in DOMAIN s /\ i + 1 # 1
      BY <1>1
    <2>2. QED
      BY <1>1, <1>2, <1>3, <2>1 DEF ToSet
  <1>6. ToSet(s) \ {Head(s)} \subseteq ToSet(Tail(s))
    <2>1. \A i \in DOMAIN s : i # 1 => i - 1 \in 1..(Len(s) - 1) /\ Tail(s)[i - 1] = s[i]
      BY <1>1
    <2>2. QED
      BY <1>1, <1>2, <2>1 DEF ToSet
  <1>7. IsInjective(Tail(s))
    <2>1. SUFFICES ASSUME NEW i \in 1..(Len(s) - 1), NEW j \in 1..(Len(s) - 1),
                          Tail(s)[i] = Tail(s)[j]
                   PROVE  i = j
      BY <1>2 DEF IsInjective
    <2>2. i + 1 = j + 1
      BY <1>1, <1>3, <2>1
    <2>3. QED
      BY <2>2
  <1>8. QED
    BY <1>1, <1>4, <1>5, <1>6, <1>7

LEMMA AppendNew ==
    ASSUME NEW S, NEW s \in Seq(S), NEW x \in S, x \notin ToSet(s), IsInjective(s)
    PROVE  Append(s, x) \in Seq(S) /\ IsInjective(Append(s, x))
  <1>1. /\ Len(s) \in Nat /\ Append(s, x) \in Seq(S)
        /\ DOMAIN s = 1..Len(s) /\ DOMAIN Append(s, x) = 1..(Len(s) + 1)
        /\ \A i \in 1..Len(s) : Append(s, x)[i] = s[i] /\ s[i] # x
        /\ Append(s, x)[Len(s) + 1] = x
    BY DEF ToSet
  <1>2. \A i, j \in DOMAIN s : s[i] = s[j] => i = j
    BY DEF IsInjective
  <1>3. \A i \in 1..(Len(s) + 1) : i \in 1..Len(s) \/ i = Len(s) + 1
    BY <1>1
  <1>4. \A i, j \in 1..(Len(s) + 1) :
            Append(s, x)[i] = Append(s, x)[j] => i = j
    BY <1>1, <1>2, <1>3
  <1>5. QED
    BY <1>1, <1>4 DEF IsInjective

\* A sequence without repetitions is as long as the set of what it holds.
LEMMA InjectiveLength ==
    ASSUME NEW S, NEW s \in Seq(S), IsInjective(s)
    PROVE  IsFiniteSet(ToSet(s)) /\ Cardinality(ToSet(s)) = Len(s)
  <1>1. Len(s) \in Nat /\ DOMAIN s = 1..Len(s)
    OBVIOUS
  <1>2. s \in Bijection(1..Len(s), ToSet(s))
    <2>1. s \in [1..Len(s) -> ToSet(s)]
      BY <1>1 DEF ToSet
    <2>2. QED
      BY <1>1, <2>1 DEF Bijection, Injection, Surjection, IsInjective, ToSet
  <1>3. IsFiniteSet(1..Len(s)) /\ Cardinality(1..Len(s)) = Len(s)
    <2>1. 1 \in Int /\ Len(s) \in Int
      BY <1>1
    <2>2. QED
      BY <1>1, <2>1, FS_Interval
  <1>4. QED
    BY <1>1, <1>2, <1>3, FS_Bijection DEF ExistsBijection

-----------------------------------------------------------------------------
(* What an accepted manifest is like *)

IsPair(e) == e = <<e[1], e[2]>>

ComponentsSound(m) ==
    /\ IsArray(m.components)
    /\ \A i, j \in DOMAIN m.components :
          m.components[i].name = m.components[j].name => i = j
    /\ \A i \in DOMAIN m.components :
          LET inputs == m.components[i].inputs
          IN /\ IsArray(inputs)
             /\ \A a, b \in DOMAIN inputs : inputs[a].name = inputs[b].name => a = b

StagesSound(m) ==
    /\ \A i, j \in DOMAIN m.stages : m.stages[i].name = m.stages[j].name => i = j
    /\ \A i \in DOMAIN m.stages :
          /\ IsArray(m.stages[i].components)
          /\ IsInjective(m.stages[i].components)
          /\ \A c \in ToSet(m.stages[i].components) : HasComponent(m, c)

ConnectionsSound(m) ==
    /\ IsArray(m.connections)
    /\ \A i \in DOMAIN m.connections :
          LET c == m.connections[i]
          IN /\ IsPair(c.source) /\ IsPair(c.target)
             /\ IsOutput(m, c.source) /\ IsInput(m, c.target)
             /\ c.source # Host
    /\ \A i, j \in DOMAIN m.connections :
          /\ m.connections[i].target = m.connections[j].target
          /\ m.connections[i].recurrent = m.connections[j].recurrent
          => i = j

\* A generated input is computed from one other port at most.
InputsSound(m) ==
    /\ \A i, j \in DOMAIN m.inputs : m.inputs[i].port = m.inputs[j].port => i = j
    /\ \A i \in DOMAIN m.inputs :
          /\ m.inputs[i].kind \in InputKinds
          /\ m.inputs[i].kind # "generated" => GeneratorSources(m.inputs[i]) = {}
          /\ \A p, q \in GeneratorSources(m.inputs[i]) : p = q

StatesSound(m) ==
    /\ IsArray(m.states)
    /\ \A i \in DOMAIN m.states :
          /\ IsPair(m.states[i].input) /\ IsPair(m.states[i].output)
          /\ IsInput(m, m.states[i].input) /\ IsOutput(m, m.states[i].output)
          /\ \E k \in DOMAIN m.connections :
                /\ m.connections[k].recurrent
                /\ m.connections[k].source = m.states[i].output
                /\ m.connections[k].target = m.states[i].input
    /\ \A i, j \in DOMAIN m.states :
          m.states[i].input = m.states[j].input
            \/ m.states[i].name = m.states[j].name => i = j

Sound(m) ==
    /\ ComponentsSound(m)
    /\ StagesSound(m)
    /\ ConnectionsSound(m)
    /\ InputsSound(m)
    /\ StatesSound(m)
    /\ Acyclic(m)
    /\ OneInitialSource(m)

\* The array fields of a parsed manifest, element by element.
LEMMA ParsedFields ==
    ASSUME NEW root, Parses(root), ArraysAreSequences(root)
    PROVE  LET o == root.manifest
               m == ParseManifest(root)
           IN /\ IsArray(o.components) /\ IsArray(o.connections)
              /\ IsArray(o.inputs) /\ IsArray(o.stages)
              /\ DOMAIN m.components = DOMAIN o.components
              /\ DOMAIN m.connections = DOMAIN o.connections
              /\ DOMAIN m.inputs = DOMAIN o.inputs
              /\ DOMAIN m.stages = DOMAIN o.stages
              /\ m.components = [i \in DOMAIN o.components |-> ParseComponent(o.components[i])]
              /\ m.connections = [i \in DOMAIN o.connections |-> ParseConnection(o.connections[i])]
              /\ m.inputs = [i \in DOMAIN o.inputs |-> ParseInput(o.inputs[i])]
              /\ m.stages = [i \in DOMAIN o.stages |-> ParseStage(o.stages[i])]
              /\ \A i \in DOMAIN o.components : ComponentParses(o.components[i])
              /\ \A i \in DOMAIN o.connections : ConnectionParses(o.connections[i])
              /\ \A i \in DOMAIN o.inputs : InputParses(o.inputs[i])
              /\ \A i \in DOMAIN o.stages : StageParses(o.stages[i])
              /\ \A i \in DOMAIN o.components :
                    ArraysOf(o.components[i], {"inputs", "outputs"})
              /\ \A i \in DOMAIN o.connections :
                    ArraysOf(o.connections[i], {"source", "target"})
              /\ \A i \in DOMAIN o.stages : ArraysOf(o.stages[i], {"components"})
  <1> DEFINE o == root.manifest
  <1>1. /\ {"components", "connections", "stages", "inputs"} \subseteq DOMAIN o
        /\ "manifest" \in DOMAIN root
    BY DEF Parses, RootParses, Keys
  <1>2. /\ Field(o, "components", <<>>) = o.components
        /\ Field(o, "connections", <<>>) = o.connections
        /\ Field(o, "inputs", <<>>) = o.inputs
        /\ Field(o, "stages", <<>>) = o.stages
    BY <1>1 DEF Field
  <1>3. /\ \A i \in DOMAIN o.components : ComponentParses(o.components[i])
        /\ \A i \in DOMAIN o.connections : ConnectionParses(o.connections[i])
        /\ \A i \in DOMAIN o.inputs : InputParses(o.inputs[i])
        /\ \A i \in DOMAIN o.stages : StageParses(o.stages[i])
    BY <1>2 DEF Parses
  <1>4. LET m == ParseManifest(root)
        IN /\ m.components = [i \in DOMAIN o.components |-> ParseComponent(o.components[i])]
           /\ m.connections = [i \in DOMAIN o.connections |-> ParseConnection(o.connections[i])]
           /\ m.inputs = [i \in DOMAIN o.inputs |-> ParseInput(o.inputs[i])]
           /\ m.stages = [i \in DOMAIN o.stages |-> ParseStage(o.stages[i])]
    BY <1>2 DEF ParseManifest
  <1>5. /\ ArraysOf(o, {"components", "connections", "inputs", "stages", "states"})
        /\ \A i \in DOMAIN o.components :
              ArraysOf(o.components[i], {"inputs", "outputs"})
        /\ \A i \in DOMAIN o.connections :
              ArraysOf(o.connections[i], {"source", "target"})
        /\ \A i \in DOMAIN o.stages : ArraysOf(o.stages[i], {"components"})
    BY <1>1, <1>2 DEF ArraysAreSequences
  <1>6. /\ IsArray(o.components) /\ IsArray(o.connections)
        /\ IsArray(o.inputs) /\ IsArray(o.stages)
    BY <1>1, <1>5 DEF ArraysOf
  <1>7. QED
    BY <1>3, <1>4, <1>5, <1>6

\* The states, which a manifest need not have.
LEMMA ParsedStates ==
    ASSUME NEW root, Parses(root), ArraysAreSequences(root)
    PROVE  LET states == Field(root.manifest, "states", <<>>)
               m == ParseManifest(root)
           IN /\ IsArray(states)
              /\ DOMAIN m.states = DOMAIN states
              /\ \A i \in DOMAIN states :
                    /\ m.states[i] = ParseState(states[i])
                    /\ StateParses(states[i])
                    /\ ArraysOf(states[i], {"input", "output"})
  <1> DEFINE o == root.manifest
             states == Field(o, "states", <<>>)
  <1>1. "manifest" \in DOMAIN root
    BY DEF Parses, RootParses, Keys
  <1>2. CASE "states" \in DOMAIN o
    <2>1. states = o.states
      BY <1>2 DEF Field
    <2>2. \A i \in DOMAIN states : StateParses(states[i])
      BY <2>1 DEF Parses
    <2>3. ParseManifest(root).states = [i \in DOMAIN states |-> ParseState(states[i])]
      BY <2>1 DEF ParseManifest
    <2>4. /\ ArraysOf(o, {"components", "connections", "inputs", "stages", "states"})
          /\ \A i \in DOMAIN states : ArraysOf(states[i], {"input", "output"})
      BY <1>1, <2>1 DEF ArraysAreSequences
    <2>5. IsArray(states)
      BY <1>2, <2>1, <2>4 DEF ArraysOf
    <2>6. QED
      BY <2>2, <2>3, <2>4, <2>5
  <1>3. CASE "states" \notin DOMAIN o
    <2>1. states = <<>>
      BY <1>3 DEF Field
    <2>2. ParseManifest(root).states = [i \in DOMAIN states |-> ParseState(o.states[i])]
      BY DEF ParseManifest
    <2>3. IsArray(states)
      <3>1. <<>> \in Seq(ToSet(<<>>))
        OBVIOUS
      <3>2. QED
        BY <2>1, <3>1 DEF IsArray
    <2>4. DOMAIN states = {}
      BY <2>1
    <2>5. QED
      BY <2>2, <2>3, <2>4
  <1>4. QED
    BY <1>2, <1>3

LEMMA ComponentsAreSound ==
    ASSUME NEW root, Parses(root), ArraysAreSequences(root),
           ComponentsValid(ParseManifest(root))
    PROVE  ComponentsSound(ParseManifest(root))
  <1> DEFINE o == root.manifest.components
             m == ParseManifest(root)
  <1> HIDE DEF m
  <1>1. /\ IsArray(o)
        /\ DOMAIN m.components = DOMAIN o
        /\ m.components = [i \in DOMAIN o |-> ParseComponent(o[i])]
        /\ \A i \in DOMAIN o : ComponentParses(o[i])
        /\ \A i \in DOMAIN o : ArraysOf(o[i], {"inputs", "outputs"})
    BY ParsedFields DEF m
  <1>2. IsArray(m.components)
    <2>1. Len(o) \in Nat /\ DOMAIN o = 1..Len(o)
      BY <1>1, ArrayIs
    <2>2. m.components = [i \in 1..Len(o) |-> m.components[i]]
      BY <1>1, <2>1
    <2>3. QED
      BY <1>1, <2>1, <2>2, ArrayRead
  <1>3. ASSUME NEW i \in DOMAIN m.components, NEW j \in DOMAIN m.components,
               m.components[i].name = m.components[j].name
        PROVE  i = j
    BY <1>3 DEF ComponentsValid, CheckUnique, IsInjective, m
  <1>4. ASSUME NEW i \in DOMAIN m.components
        PROVE  LET inputs == m.components[i].inputs
               IN /\ IsArray(inputs)
                  /\ \A a, b \in DOMAIN inputs :
                        inputs[a].name = inputs[b].name => a = b
    <2> DEFINE specs == o[i].inputs
               inputs == m.components[i].inputs
    <2>1. inputs = ParseTensorSpecs(specs)
      <3>1. m.components[i] = ParseComponent(o[i])
        BY <1>1
      <3>2. ParseComponent(o[i]).inputs = ParseTensorSpecs(o[i].inputs)
        BY DEF ParseComponent
      <3>3. QED
        BY <3>1, <3>2
    <2>2. TensorSpecsParse(specs) /\ IsArray(specs)
      BY <1>1 DEF ComponentParses, ArraysOf, Keys
    <2> HIDE DEF specs, inputs
    <2>3. /\ inputs = [k \in DOMAIN specs |-> ParseTensorSpec(specs[k])]
          /\ DOMAIN inputs = DOMAIN specs
      BY <2>1 DEF ParseTensorSpecs
    <2>4. \A k \in DOMAIN specs : inputs[k].name = specs[k].name
      BY <2>3 DEF ParseTensorSpec
    <2>5. \A a, b \in DOMAIN specs : specs[a].name = specs[b].name => a = b
      BY <2>2 DEF TensorSpecsParse, CheckUnique, NamesOf, IsInjective
    <2>6. Len(specs) \in Nat /\ DOMAIN specs = 1..Len(specs)
      BY <2>2, ArrayIs
    <2>7. inputs = [k \in 1..Len(specs) |-> inputs[k]]
      BY <2>3, <2>6
    <2>8. IsArray(inputs)
      BY <2>3, <2>6, <2>7, ArrayRead
    <2>9. QED
      BY <2>3, <2>4, <2>5, <2>8 DEF inputs
  <1>5. QED
    BY <1>2, <1>3, <1>4 DEF ComponentsSound, m

LEMMA StagesAreSound ==
    ASSUME NEW root, Parses(root), ArraysAreSequences(root),
           StagesValid(ParseManifest(root))
    PROVE  StagesSound(ParseManifest(root))
  <1> DEFINE o == root.manifest.stages
             m == ParseManifest(root)
  <1> HIDE DEF m
  <1>1. /\ DOMAIN m.stages = DOMAIN o
        /\ m.stages = [i \in DOMAIN o |-> ParseStage(o[i])]
        /\ \A i \in DOMAIN o : StageParses(o[i])
        /\ \A i \in DOMAIN o : ArraysOf(o[i], {"components"})
    BY ParsedFields DEF m
  <1>2. /\ \A i \in DOMAIN m.stages : StageValid(m, m.stages[i])
        /\ \A i, j \in DOMAIN m.stages : m.stages[i].name = m.stages[j].name => i = j
    BY DEF StagesValid, CheckUnique, NamesOf, IsInjective, m
  <1>3. ASSUME NEW i \in DOMAIN m.stages
        PROVE  /\ IsArray(m.stages[i].components)
               /\ IsInjective(m.stages[i].components)
               /\ \A c \in ToSet(m.stages[i].components) : HasComponent(m, c)
    <2>1. m.stages[i].components = o[i].components
      BY <1>1 DEF ParseStage
    <2>2. "components" \in DOMAIN o[i]
      BY <1>1 DEF StageParses, Keys
    <2>3. IsInjective(o[i].components)
      BY <1>1, <2>2 DEF StageParses, ParseStringArray, CheckUnique
    <2>4. IsArray(o[i].components)
      BY <1>1, <2>2 DEF ArraysOf
    <2>5. \A c \in ToSet(m.stages[i].components) : HasComponent(m, c)
      BY <1>2 DEF StageValid
    <2>6. QED
      BY <2>1, <2>3, <2>4, <2>5
  <1>4. QED
    BY <1>2, <1>3 DEF StagesSound, m

LEMMA ConnectionsAreSound ==
    ASSUME NEW root, Parses(root), ArraysAreSequences(root),
           ConnectionsValid(ParseManifest(root))
    PROVE  ConnectionsSound(ParseManifest(root))
  <1> DEFINE o == root.manifest.connections
             m == ParseManifest(root)
  <1> HIDE DEF m
  <1>1. /\ IsArray(o)
        /\ DOMAIN m.connections = DOMAIN o
        /\ m.connections = [i \in DOMAIN o |-> ParseConnection(o[i])]
        /\ \A i \in DOMAIN o : ConnectionParses(o[i])
        /\ \A i \in DOMAIN o : ArraysOf(o[i], {"source", "target"})
    BY ParsedFields DEF m
  <1>2. IsArray(m.connections)
    <2>1. Len(o) \in Nat /\ DOMAIN o = 1..Len(o)
      BY <1>1, ArrayIs
    <2>2. m.connections = [i \in 1..Len(o) |-> m.connections[i]]
      BY <1>1, <2>1
    <2>3. QED
      BY <1>1, <2>1, <2>2, ArrayRead
  <1>3. /\ \A i \in DOMAIN m.connections : ConnectionValid(m, m.connections[i])
        /\ \A i, j \in DOMAIN m.connections :
              /\ m.connections[i].target = m.connections[j].target
              /\ m.connections[i].recurrent = m.connections[j].recurrent
              => i = j
    BY DEF ConnectionsValid, m
  <1>4. ASSUME NEW i \in DOMAIN m.connections
        PROVE  LET c == m.connections[i]
               IN /\ IsPair(c.source) /\ IsPair(c.target)
                  /\ IsOutput(m, c.source) /\ IsInput(m, c.target)
                  /\ c.source # Host
    <2>1. m.connections[i] = ParseConnection(o[i])
      BY <1>1
    <2>2. /\ m.connections[i].source = o[i].source
          /\ m.connections[i].target = o[i].target
      <3>1. /\ ParseConnection(o[i]).source = o[i].source
            /\ ParseConnection(o[i]).target = o[i].target
        BY DEF ParseConnection
      <3>2. QED
        BY <2>1, <3>1
    <2>3. {"source", "target"} \subseteq DOMAIN o[i]
      BY <1>1 DEF ConnectionParses, Keys
    <2>4. IsArray(o[i].source) /\ IsArray(o[i].target)
      BY <1>1, <2>3 DEF ArraysOf
    <2>5. ParseEndpoint(o[i].source) /\ ParseEndpoint(o[i].target)
      BY <1>1, Zenon DEF ConnectionParses
    <2>6. IsPair(o[i].source) /\ IsPair(o[i].target)
      BY <2>4, <2>5, PairIs DEF ParseEndpoint, IsPair
    <2>7. o[i].source # Host
      <3>1. o[i].source[2] # ""
        BY <2>5, ManifestAssumption DEF ParseEndpoint, ValidateToken
      <3>2. Host[2] = ""
        BY DEF Host
      <3>3. QED
        BY <3>1, <3>2
    <2>8. IsOutput(m, m.connections[i].source) /\ IsInput(m, m.connections[i].target)
      BY <1>3 DEF ConnectionValid
    <2>9. QED
      BY <2>2, <2>6, <2>7, <2>8
  <1>5. QED
    BY <1>2, <1>3, <1>4 DEF ConnectionsSound, m

\* Each kind of generator names one source at most.
LEMMA OneSourceEach ==
    ASSUME NEW kind \in DOMAIN GeneratorDefinitions
    PROVE  \A p, q \in GeneratorDefinitions[kind].allowed
                        \cap {"sequence_input", "source", "shape_from"} : p = q
  BY DEF GeneratorDefinitions, Program

LEMMA InputsAreSound ==
    ASSUME NEW root, Parses(root), ArraysAreSequences(root),
           InputsValid(ParseManifest(root))
    PROVE  InputsSound(ParseManifest(root))
  <1> DEFINE o == root.manifest.inputs
             m == ParseManifest(root)
  <1> HIDE DEF m
  <1>1. /\ DOMAIN m.inputs = DOMAIN o
        /\ m.inputs = [i \in DOMAIN o |-> ParseInput(o[i])]
        /\ \A i \in DOMAIN o : InputParses(o[i])
    BY ParsedFields DEF m
  <1>2. /\ \A i \in DOMAIN m.inputs : InputValid(m, m.inputs[i])
        /\ \A i, j \in DOMAIN m.inputs : m.inputs[i].port = m.inputs[j].port => i = j
    BY DEF InputsValid, m
  <1>3. ASSUME NEW i \in DOMAIN m.inputs
        PROVE  /\ m.inputs[i].kind \in InputKinds
               /\ m.inputs[i].kind # "generated" => GeneratorSources(m.inputs[i]) = {}
               /\ \A p, q \in GeneratorSources(m.inputs[i]) : p = q
    <2> DEFINE in == m.inputs[i]
               generator == Field(o[i], "generator", [kind |-> ""])
    <2>1. in = ParseInput(o[i])
      BY <1>1
    <2>2. /\ in.kind = o[i].kind
          /\ in.generator_kind = generator.kind
          /\ in.generator = Field(generator, "parameters", <<>>)
      <3>1. /\ ParseInput(o[i]).kind = o[i].kind
            /\ ParseInput(o[i]).generator_kind = generator.kind
            /\ ParseInput(o[i]).generator = Field(generator, "parameters", <<>>)
        BY DEF ParseInput
      <3>2. QED
        BY <2>1, <3>1
    <2>3. o[i].kind \in InputKinds
      BY <1>1 DEF InputParses
    <2>4. InputValid(m, in)
      BY <1>2
    <2> HIDE DEF in
    <2>5. CASE in.kind # "generated"
      <3>1. in.generator_kind = ""
        BY <2>4, <2>5 DEF InputValid
      <3>2. "generator" \notin DOMAIN o[i]
        BY <1>1, <2>2, <3>1 DEF InputParses, Field
      <3>3. in.generator = <<>>
        BY <2>2, <3>2 DEF Field
      <3>4. GeneratorSources(in) = {}
        BY <3>3 DEF GeneratorSources
      <3>5. QED
        BY <2>2, <2>3, <3>4 DEF in
    <2>6. CASE in.kind = "generated"
      <3>1. /\ in.generator_kind \in DOMAIN GeneratorDefinitions
            /\ DOMAIN in.generator
                 \subseteq GeneratorDefinitions[in.generator_kind].allowed
        BY <2>4, <2>6 DEF InputValid, ValidateProgramParameters, Keys
      <3>2. \A a, b \in DOMAIN in.generator
                          \cap {"sequence_input", "source", "shape_from"} : a = b
        BY <3>1, OneSourceEach
      <3>3. \A p, q \in GeneratorSources(in) : p = q
        BY <3>2 DEF GeneratorSources
      <3>4. QED
        BY <2>2, <2>3, <2>6, <3>3 DEF in
    <2>7. QED
      BY <2>5, <2>6
  <1>4. QED
    BY <1>2, <1>3 DEF InputsSound, m

LEMMA StatesAreSound ==
    ASSUME NEW root, Parses(root), ArraysAreSequences(root),
           StatesValid(ParseManifest(root))
    PROVE  StatesSound(ParseManifest(root))
  <1> DEFINE o == Field(root.manifest, "states", <<>>)
             m == ParseManifest(root)
  <1>0. m.states = [i \in DOMAIN o |-> ParseState(root.manifest.states[i])]
    BY DEF ParseManifest
  <1> HIDE DEF m, o
  <1>1. /\ IsArray(o)
        /\ DOMAIN m.states = DOMAIN o
        /\ \A i \in DOMAIN o :
              /\ m.states[i] = ParseState(o[i])
              /\ StateParses(o[i])
              /\ ArraysOf(o[i], {"input", "output"})
    BY ParsedStates DEF m, o
  <1>2. IsArray(m.states)
    <2>1. Len(o) \in Nat /\ DOMAIN o = 1..Len(o)
      BY <1>1, ArrayIs
    <2>2. m.states = [i \in 1..Len(o) |-> m.states[i]]
      BY <1>0, <2>1
    <2>3. QED
      BY <1>1, <2>1, <2>2, ArrayRead
  <1>3. /\ \A i \in DOMAIN m.states : StateValid(m, m.states[i])
        /\ \A i, j \in DOMAIN m.states :
              m.states[i].input = m.states[j].input
                \/ m.states[i].name = m.states[j].name => i = j
    BY DEF StatesValid, m
  <1>4. ASSUME NEW i \in DOMAIN m.states
        PROVE  LET s == m.states[i]
               IN /\ IsPair(s.input) /\ IsPair(s.output)
                  /\ IsInput(m, s.input) /\ IsOutput(m, s.output)
                  /\ \E k \in DOMAIN m.connections :
                        /\ m.connections[k].recurrent
                        /\ m.connections[k].source = s.output
                        /\ m.connections[k].target = s.input
    <2>1. m.states[i].input = o[i].input /\ m.states[i].output = o[i].output
      <3>1. /\ m.states[i] = ParseState(o[i])
            /\ ParseState(o[i]).input = o[i].input
            /\ ParseState(o[i]).output = o[i].output
        BY <1>1 DEF ParseState
      <3>2. QED
        BY <3>1
    <2>2. {"input", "output"} \subseteq DOMAIN o[i]
      BY <1>1 DEF StateParses, Keys
    <2>3. IsArray(o[i].input) /\ IsArray(o[i].output)
      BY <1>1, <2>2 DEF ArraysOf
    <2>4. ParseEndpoint(o[i].input) /\ ParseEndpoint(o[i].output)
      BY <1>1 DEF StateParses
    <2>5. IsPair(o[i].input) /\ IsPair(o[i].output)
      BY <2>3, <2>4, PairIs DEF ParseEndpoint, IsPair
    <2>6. /\ IsInput(m, m.states[i].input) /\ IsOutput(m, m.states[i].output)
          /\ StateEdge(m.states[i]) \in RecurrentEdges(m)
      BY <1>3 DEF StateValid
    <2>7. \E k \in DOMAIN m.connections :
             /\ m.connections[k].recurrent
             /\ m.connections[k].source = m.states[i].output
             /\ m.connections[k].target = m.states[i].input
      BY <2>6 DEF StateEdge, RecurrentEdges
    <2>8. QED
      BY <2>1, <2>5, <2>6, <2>7
  <1>5. QED
    BY <1>2, <1>3, <1>4 DEF StatesSound, m

\* A document that parses and passes validation makes a sound manifest.
LEMMA AcceptedIsSound ==
    ASSUME NEW root, Parses(root), ArraysAreSequences(root),
           ValidateManifest(ParseManifest(root))
    PROVE  Sound(ParseManifest(root))
  <1>1. LET m == ParseManifest(root)
        IN /\ ComponentsValid(m) /\ StagesValid(m) /\ ConnectionsValid(m)
           /\ InputsValid(m) /\ StatesValid(m) /\ Acyclic(m) /\ OneInitialSource(m)
    BY DEF ValidateManifest
  <1>2. QED
    BY <1>1, ComponentsAreSound, StagesAreSound, ConnectionsAreSound,
       InputsAreSound, StatesAreSound DEF Sound

-----------------------------------------------------------------------------
(* Looking a sound manifest up *)

LEMMA FoundComponent ==
    ASSUME NEW m, NEW name, HasComponent(m, name)
    PROVE  \E i \in DOMAIN m.components :
              /\ m.components[i].name = name
              /\ FindComponent(m, name) = m.components[i]
  <1> DEFINE found == Named(m.components, name)
             i == CHOOSE i \in found : TRUE
  <1>1. i \in found
    BY DEF HasComponent
  <1>2. i \in DOMAIN m.components /\ m.components[i].name = name
    BY <1>1 DEF Named
  <1>3. FindComponent(m, name) = m.components[i]
    BY DEF FindComponent
  <1>4. QED
    BY <1>2, <1>3

LEMMA ComponentAt ==
    ASSUME NEW m, ComponentsSound(m), NEW i \in DOMAIN m.components
    PROVE  /\ HasComponent(m, m.components[i].name)
           /\ FindComponent(m, m.components[i].name) = m.components[i]
  <1>1. HasComponent(m, m.components[i].name)
    BY DEF HasComponent, Named
  <1>2. PICK j \in DOMAIN m.components :
            /\ m.components[j].name = m.components[i].name
            /\ FindComponent(m, m.components[i].name) = m.components[j]
    BY <1>1, FoundComponent
  <1>3. j = i
    BY <1>2 DEF ComponentsSound
  <1>4. QED
    BY <1>1, <1>2, <1>3

-----------------------------------------------------------------------------
(* Loading *)

\* The document a request names, once it is accepted, makes a sound manifest.
LEMMA LoadedIsSound ==
    ASSUME LoadInv, phase \in Accepted
    PROVE  Sound(manifest)
  <1> DEFINE root == Documents[Asked.document]
  <1>1. Asked.document \in DOMAIN Documents
    BY PackageAssumption DEF LoadInv, Asked
  <1>2. ArraysAreSequences(root)
    BY <1>1, DocumentsAssumption
  <1>3. /\ Parses(root) /\ manifest = ParseManifest(root)
        /\ ValidateManifest(manifest)
    BY DEF LoadInv
  <1>4. QED
    BY <1>2, <1>3, AcceptedIsSound

LEMMA LoadInit == DataflowInit => LoadInv
  <1>1. SUFFICES ASSUME PackageInit PROVE LoadInv
    BY DEF DataflowInit
  <1>2. DOMAIN opened = {} /\ phase = "start" /\ opened = <<>>
    BY <1>1 DEF PackageInit
  <1>3. phase \notin Accepted /\ phase # "checked" /\ phase # "loaded"
    BY <1>2 DEF Accepted
  <1>4. request \in DOMAIN Requests
    BY <1>1 DEF PackageInit
  <1>5. QED
    BY <1>2, <1>3, <1>4 DEF LoadInv

\* A step that leaves the package alone.
LEMMA LoadKept ==
    ASSUME LoadInv, UNCHANGED package
    PROVE  LoadInv'
  <1>1. /\ request' = request /\ phase' = phase /\ manifest' = manifest
        /\ opened' = opened /\ plan' = plan
    BY DEF package
  <1>2. /\ Asked' = Asked
        /\ EveryComponentOpen' = EveryComponentOpen
    BY <1>1 DEF Asked, EveryComponentOpen
  <1>3. (\E k \in 0..Len(manifest.components) : OpenedUpTo(k))'
          = (\E k \in 0..Len(manifest.components) : OpenedUpTo(k))
    BY <1>1 DEF OpenedUpTo
  <1>4. QED
    BY <1>1, <1>2, <1>3 DEF LoadInv

LEMMA LoadFails ==
    ASSUME LoadInv, Fail
    PROVE  LoadInv'
  <1>1. /\ request' = request /\ phase' = "failed" /\ opened' = <<>>
    BY DEF Fail, Enter
  <1>2. DOMAIN opened' = {}
    BY <1>1
  <1>3. request' \in DOMAIN Requests
    BY <1>1 DEF LoadInv
  <1>4. phase' \notin Accepted /\ phase' # "checked" /\ phase' # "loaded"
    BY <1>1 DEF Accepted
  <1>5. QED
    BY <1>1, <1>2, <1>3, <1>4 DEF LoadInv

LEMMA ParseDocumentKeepsLoad ==
    ASSUME LoadInv, ParseDocument
    PROVE  LoadInv'
  <1> DEFINE root == Documents[Asked.document]
  <1>1. CASE Parses(root) /\ ValidateManifest(ParseManifest(root))
    <2>1. /\ request' = request /\ phase' = "parsed"
          /\ manifest' = ParseManifest(root)
          /\ opened' = opened
      BY <1>1 DEF ParseDocument, Enter
    <2>2. opened = <<>>
      BY DEF LoadInv, ParseDocument, Accepted
    <2>3. Sound(ParseManifest(root))
      <3>1. Asked.document \in DOMAIN Documents
        BY PackageAssumption DEF LoadInv, Asked
      <3>2. ArraysAreSequences(root)
        BY <3>1, DocumentsAssumption
      <3>3. QED
        BY <1>1, <3>2, AcceptedIsSound
    <2>4. Len(manifest'.components) \in Nat
      BY <2>1, <2>3, ArrayIs DEF Sound, ComponentsSound
    <2>5. OpenedUpTo(0)'
      <3>1. DOMAIN opened' = {}
        BY <2>1, <2>2
      <3>2. 1..0 = {}
        OBVIOUS
      <3>3. QED
        BY <3>1, <3>2 DEF OpenedUpTo
    <2>6. \E k \in 0..Len(manifest'.components) : OpenedUpTo(k)'
      BY <2>4, <2>5
    <2>7. Asked' = Asked
      BY <2>1 DEF Asked
    <2>8. request' \in DOMAIN Requests
      BY <2>1 DEF LoadInv
    <2>9. DOMAIN opened' = {}
      BY <2>1, <2>2
    <2>10. QED
      BY <1>1, <2>1, <2>2, <2>6, <2>7, <2>8, <2>9 DEF LoadInv, Accepted
  <1>2. CASE ~(Parses(root) /\ ValidateManifest(ParseManifest(root)))
    BY <1>2, LoadFails DEF ParseDocument
  <1>3. QED
    BY <1>1, <1>2

\* A load that gets further with the sessions it has.
LEMMA LoadMoves ==
    ASSUME LoadInv, phase \in Accepted, phase' \in Accepted,
           UNCHANGED <<request, manifest, opened>>,
           phase' \in {"checked", "loaded"} => EveryComponentOpen,
           phase' = "loaded" => plan' = BuildTransferPlan(manifest, opened)
    PROVE  LoadInv'
  <1>1. /\ request' = request /\ manifest' = manifest /\ opened' = opened
        /\ Asked' = Asked
    BY DEF Asked
  <1>2. (\E k \in 0..Len(manifest.components) : OpenedUpTo(k))'
          = (\E k \in 0..Len(manifest.components) : OpenedUpTo(k))
    BY <1>1 DEF OpenedUpTo
  <1>3. EveryComponentOpen' = EveryComponentOpen
    BY <1>1 DEF EveryComponentOpen
  <1>4. QED
    BY <1>1, <1>2, <1>3 DEF LoadInv

LEMMA CheckPlacementKeepsLoad ==
    ASSUME LoadInv, CheckPlacement
    PROVE  LoadInv'
  <1>1. CASE Enter("opening") /\ UNCHANGED <<manifest, opened, plan>>
    <2>1. /\ phase \in Accepted /\ phase' = "opening"
          /\ UNCHANGED <<request, manifest, opened>>
      BY <1>1 DEF CheckPlacement, Enter, Accepted
    <2>2. QED
      BY <2>1, LoadMoves DEF Accepted
  <1>2. QED
    BY <1>1, LoadFails DEF CheckPlacement

LEMMA ResolveAssetsKeepsLoad ==
    ASSUME LoadInv, ResolveAssets
    PROVE  LoadInv'
  <1>1. /\ phase = "opening" /\ phase' = "checked" /\ EveryComponentOpen
        /\ UNCHANGED <<request, manifest, opened>>
    BY DEF ResolveAssets, Enter
  <1>2. QED
    BY <1>1, LoadMoves DEF Accepted

LEMMA ConstructKeepsLoad ==
    ASSUME LoadInv, Construct
    PROVE  LoadInv'
  <1>1. CASE /\ Enter("loaded")
             /\ plan' = BuildTransferPlan(manifest, opened)
             /\ UNCHANGED <<manifest, opened>>
    <2>1. /\ phase = "checked" /\ phase' = "loaded"
          /\ UNCHANGED <<request, manifest, opened>>
      BY <1>1 DEF Construct, Enter
    <2>2. EveryComponentOpen
      BY <2>1 DEF LoadInv
    <2>3. QED
      BY <1>1, <2>1, <2>2, LoadMoves DEF Accepted
  <1>2. QED
    BY <1>1, LoadFails DEF Construct

\* The next component to open is the one after those that are open.
LEMMA NextComponentIs ==
    ASSUME ComponentsSound(manifest), NEW k \in 0..Len(manifest.components),
           OpenedUpTo(k), ~EveryComponentOpen
    PROVE  /\ k + 1 \in 1..Len(manifest.components)
           /\ NextComponent = manifest.components[k + 1]
           /\ NextComponent.name \notin DOMAIN opened
  <1> DEFINE n == Len(manifest.components)
             pending == {i \in DOMAIN manifest.components :
                            manifest.components[i].name \notin DOMAIN opened}
  <1>1. n \in Nat /\ DOMAIN manifest.components = 1..n
    BY ArrayIs DEF ComponentsSound
  <1>2. k # n
    <2>1. SUFFICES ASSUME k = n PROVE FALSE
      OBVIOUS
    <2>2. DOMAIN opened = NameSet(manifest.components)
      BY <1>1, <2>1 DEF OpenedUpTo, NameSet
    <2>3. QED
      BY <2>2 DEF EveryComponentOpen
  <1>3. k \in Nat /\ k + 1 \in 1..n
    BY <1>1, <1>2
  <1>4. \A i \in 1..n : i \in pending <=> i \notin 1..k
    <2>1. SUFFICES ASSUME NEW i \in 1..n PROVE i \in pending <=> i \notin 1..k
      OBVIOUS
    <2> DEFINE name == manifest.components[i].name
    <2>0. DOMAIN opened = {manifest.components[j].name : j \in 1..k}
      BY DEF OpenedUpTo
    <2>2. name \in DOMAIN opened
            <=> \E j \in 1..k : manifest.components[j].name = name
      <3> HIDE DEF name
      <3>1. QED
        BY <2>0, Zenon
    <2>3. \A j \in 1..k : j \in 1..n
      BY <1>1, <1>3
    <2>4. \A j \in 1..k : manifest.components[j].name = manifest.components[i].name
                          => j = i
      BY <1>1, <2>3 DEF ComponentsSound
    <2>5. i \in pending <=> name \notin DOMAIN opened
      BY <1>1
    <2> HIDE DEF pending, name
    <2>6. (\E j \in 1..k : manifest.components[j].name = name) <=> i \in 1..k
      BY <2>4 DEF name
    <2>7. QED
      BY <2>2, <2>5, <2>6
  <1>5. pending \subseteq 1..n
    BY <1>1
  <1> HIDE DEF pending, n
  <1>6. k + 1 \in pending /\ \A j \in pending : k + 1 <= j
    BY <1>1, <1>3, <1>4, <1>5
  <1>7. Min(pending) = k + 1
    <2>1. \A x \in pending : (\A y \in pending : x =< y) => x = k + 1
      BY <1>3, <1>5, <1>6
    <2>2. QED
      BY <1>6, <2>1 DEF Min
  <1>8. NextComponent = manifest.components[k + 1]
    BY <1>7 DEF NextComponent, pending
  <1>9. QED
    BY <1>3, <1>6, <1>8 DEF n, pending

LEMMA OpenComponentKeepsLoad ==
    ASSUME LoadInv, OpenComponent
    PROVE  LoadInv'
  <1> DEFINE c == NextComponent
             options == ResolveComponentRuntimeOptions(
                            Asked.options, Asked.placement, c)
  <1>1. CASE /\ \E devices \in PortDevices(options) :
                   opened' = Put(opened, c.name, OrtBackend(options, devices))
             /\ UNCHANGED <<request, phase, manifest, plan>>
    <2>1. PICK devices : opened' = Put(opened, c.name, OrtBackend(options, devices))
      BY <1>1
    <2>2. phase = "opening" /\ phase \in Accepted /\ ~EveryComponentOpen
      BY DEF OpenComponent, Accepted
    <2>3. ComponentsSound(manifest)
      BY <2>2, LoadedIsSound DEF Sound
    <2>4. PICK k \in 0..Len(manifest.components) : OpenedUpTo(k)
      BY <2>2 DEF LoadInv
    <2>5. /\ k + 1 \in 1..Len(manifest.components)
          /\ c = manifest.components[k + 1]
          /\ c.name \notin DOMAIN opened
      BY <2>2, <2>3, <2>4, NextComponentIs
    <2>6. Len(manifest.components) \in Nat
          /\ DOMAIN manifest.components = 1..Len(manifest.components)
      BY <2>3, ArrayIs DEF ComponentsSound
    <2> HIDE DEF c, options
    <2> DEFINE backend == OrtBackend(options, devices)
    <2>0. opened' = Put(opened, c.name, backend)
      BY <2>1
    <2> HIDE DEF backend
    <2>7. /\ DOMAIN opened' = DOMAIN opened \cup {c.name}
          /\ opened'[c.name] = backend
          /\ \A x \in DOMAIN opened : x # c.name => opened'[x] = opened[x]
      <3> DEFINE put == Put(opened, c.name, backend)
      <3>1. /\ DOMAIN put = DOMAIN opened \cup {c.name}
            /\ put[c.name] = backend
            /\ \A x \in DOMAIN opened : x # c.name => put[x] = opened[x]
        BY DEF Put
      <3> HIDE DEF put
      <3>2. opened' = put
        BY <2>0 DEF put
      <3>3. QED
        BY <3>1, <3>2
    <2>8. OpenedUpTo(k + 1)'
      <3>1. k \in Nat /\ 1..(k + 1) = 1..k \cup {k + 1}
        BY <2>6
      <3>2. QED
        BY <1>1, <2>4, <2>5, <2>7, <3>1 DEF OpenedUpTo
    <2>9. k + 1 \in 0..Len(manifest.components)
      BY <2>5, <2>6
    <2>10. ASSUME NEW name \in DOMAIN opened'
           PROVE  opened'[name].execution_providers =
                    SessionProviders(ResolveComponentRuntimeOptions(
                        Asked.options, Asked.placement,
                        FindComponent(manifest, name)))
      <3>1. CASE name = c.name
        <4>1. opened'[name] = OrtBackend(options, devices)
          BY <2>7, <3>1 DEF backend
        <4>2. opened'[name].execution_providers = SessionProviders(options)
          BY <4>1 DEF OrtBackend
        <4>3. FindComponent(manifest, name) = c
          BY <2>3, <2>5, <2>6, <3>1, ComponentAt
        <4>4. QED
          BY <4>2, <4>3 DEF options
      <3>2. CASE name # c.name
        <4>1. name \in DOMAIN opened /\ opened'[name] = opened[name]
          BY <2>7, <3>2
        <4>2. QED
          BY <4>1 DEF LoadInv
      <3>3. QED
        BY <3>1, <3>2
    <2>11. Asked' = Asked
      BY <1>1 DEF Asked
    <2>12. \E j \in 0..Len(manifest'.components) : OpenedUpTo(j)'
      BY <1>1, <2>8, <2>9
    <2>13. QED
      BY <1>1, <2>2, <2>10, <2>11, <2>12 DEF LoadInv, Accepted
  <1>2. QED
    BY <1>1, LoadFails DEF OpenComponent

\* A step of an open session leaves the package alone.
LEMMA SessionStepsKeepPackage ==
    ASSUME StepStage \/ Steps \/ Reset \/ \E name \in Stages : ReleaseStage(name)
    PROVE  UNCHANGED package
  <1>1. CASE StepStage
    <2>1. UNCHANGED <<package, endpoint_values, state_values, stage_iterations>>
      BY <1>1 DEF StepStage
    <2>2. QED
      BY <2>1
  <1>2. CASE Steps
    BY <1>2 DEF Steps, AddSource, EndSources, PopReady, DropEdge, NextPop,
                EndOrder, SkipComponent, BeginComponent, ResolvePort, CallModel,
                StopPass, EndComponents, PublishGuided, StoreState, EndPass
  <1>3. CASE Reset
    BY <1>3 DEF Reset
  <1>4. CASE \E name \in Stages : ReleaseStage(name)
    BY <1>4 DEF ReleaseStage
  <1>5. QED
    BY <1>1, <1>2, <1>3, <1>4

LEMMA LoadStep == LoadInv /\ [Next]_vars => LoadInv'
  <1>1. SUFFICES ASSUME LoadInv, [Next]_vars PROVE LoadInv'
    OBVIOUS
  <1>2. CASE UNCHANGED vars
    BY <1>1, <1>2, LoadKept DEF vars
  <1>3. CASE PackageNext
    <2>1. CASE FileFails
      BY <1>1, <2>1, LoadFails DEF FileFails
    <2>2. QED
      BY <1>1, <1>3, <2>1, ParseDocumentKeepsLoad, CheckPlacementKeepsLoad,
         OpenComponentKeepsLoad, ResolveAssetsKeepsLoad, ConstructKeepsLoad
         DEF PackageNext
  <1>4. CASE StepStage \/ Steps \/ Reset \/ \E name \in Stages : ReleaseStage(name)
    BY <1>1, <1>4, SessionStepsKeepPackage, LoadKept
  <1>5. QED
    BY <1>1, <1>2, <1>3, <1>4 DEF Next

-----------------------------------------------------------------------------
(* Tensors: what a connection hands on and what an input resolves to *)

LEMMA HostTensorIs ==
    ASSUME NEW pass
    PROVE  /\ IsTensor(HostTensor(pass))
           /\ HostTensor(pass).from = Host
           /\ HostTensor(pass).pass = pass
  BY DEF HostTensor, IsTensor

LEMMA KnownIs ==
    ASSUME NEW f, NEW keys, NEW v \in Known(f, keys)
    PROVE  \E k \in keys \cap DOMAIN f : v = f[k]
  BY DEF Known

\* What an origin or a place is after the connection.
Applied(c, v, w) ==
    /\ IsTensor(w)
    /\ c.target \in run.overrides => w = HostTensor(run.pass)
    /\ c.target \notin run.overrides =>
         /\ Carries(c) => w.from = v.from /\ w.pass = v.pass
         /\ ~Carries(c) => w.from = Host
         /\ Forwards(c) => SamePlace(w, v)

\* Any transform but those that hand the tensor on runs on the host.
LEMMA ForwardsCarries ==
    ASSUME NEW c, Forwards(c)
    PROVE  Carries(c)
  BY DEF Carries, Forwards, HostTransform, ProvableNoop

LEMMA AppliedIs ==
    ASSUME NEW c, NEW v, NEW initial, NEW w, IsTensor(v),
           w \in ApplyConnection(c, v, initial)
    PROVE  Applied(c, v, w)
  <1>1. CASE c.target \in run.overrides
    <2>1. w = HostTensor(run.pass)
      BY <1>1 DEF ApplyConnection
    <2>2. QED
      BY <1>1, <2>1, HostTensorIs DEF Applied
  <1>2. CASE c.target \notin run.overrides /\ c.transform = ""
    <2>1. w = v
      BY <1>2 DEF ApplyConnection
    <2>2. QED
      BY <1>2, <2>1 DEF Applied, Carries, SamePlace
  <1>3. CASE c.target \notin run.overrides /\ c.transform = "reshape"
    <2> DEFINE shape == OutputSpec(manifest, c.source).shape
               changed == shape # InputSpec(manifest, c.target).shape
               forced == ~ShapeIsNoop(c, shape)
    <2>1. w = [v EXCEPT !.reshaped = \/ @ \/ changed \/ forced]
      BY <1>3 DEF ApplyConnection
    <2>2. changed \in BOOLEAN /\ forced \in BOOLEAN
      OBVIOUS
    <2>3. Carries(c)
      BY <1>3 DEF Carries
    <2>4. Forwards(c) => ~changed /\ ~forced
      BY <1>3 DEF Forwards, HostTransform, ProvableNoop
    <2> HIDE DEF changed, forced
    <2>5. /\ DOMAIN w = DOMAIN v
          /\ w.from = v.from /\ w.pass = v.pass /\ w.device = v.device
          /\ w.reshaped = (v.reshaped \/ changed \/ forced)
      BY <2>1 DEF IsTensor
    <2>6. IsTensor(w)
      BY <2>5 DEF IsTensor
    <2>7. ~changed /\ ~forced => w.reshaped = v.reshaped
      BY <2>5 DEF IsTensor
    <2>8. Forwards(c) => SamePlace(w, v)
      BY <2>4, <2>5, <2>7 DEF SamePlace
    <2>9. QED
      BY <1>3, <2>3, <2>5, <2>6, <2>8 DEF Applied
  <1>4. CASE c.target \notin run.overrides /\ c.transform = "cast"
    <2>1. w = [HostTensor(v.pass) EXCEPT !.from = v.from]
      BY <1>4 DEF ApplyConnection
    <2>2. IsTensor(w) /\ w.from = v.from /\ w.pass = v.pass
      BY <2>1 DEF HostTensor, IsTensor
    <2>3. Carries(c) /\ ~Forwards(c)
      BY <1>4 DEF Carries, Forwards, HostTransform, ProvableNoop
    <2>4. QED
      BY <1>4, <2>2, <2>3 DEF Applied
  <1>5. CASE c.target \notin run.overrides /\ c.transform \notin {"", "reshape", "cast"}
    <2>1. w = HostTensor(run.pass)
      BY <1>5 DEF ApplyConnection
    <2>2. ~Carries(c) /\ ~Forwards(c)
      BY <1>5 DEF Carries, Forwards, HostTransform, ProvableNoop
    <2>3. QED
      BY <1>5, <2>1, <2>2, HostTensorIs DEF Applied
  <1>6. QED
    BY <1>1, <1>2, <1>3, <1>4, <1>5

LEMMA GeneratedIs ==
    ASSUME NEW input, NEW w \in Generate(input)
    PROVE  /\ IsTensor(w)
           /\ GeneratorSources(input) # {} =>
                \E p \in GeneratorSources(input) : \E v \in KnownValue(p) :
                    w = HostTensor(v.pass)
  <1>1. CASE GeneratorSources(input) = {}
    BY <1>1, HostTensorIs DEF Generate
  <1>2. CASE GeneratorSources(input) # {}
    <2>1. PICK v \in UNION {KnownValue(p) : p \in GeneratorSources(input)} :
              w = HostTensor(v.pass)
      BY <1>2 DEF Generate
    <2>2. \E p \in GeneratorSources(input) : v \in KnownValue(p)
      BY <2>1
    <2>3. QED
      BY <1>2, <2>1, <2>2, HostTensorIs
  <1>3. QED
    BY <1>1, <1>2

LEMMA DeclaredIs ==
    ASSUME InputsSound(manifest), AllTensors(external_values),
           AllTensors(endpoint_values), NEW k \in DOMAIN manifest.inputs,
           NEW w \in DeclaredValue(manifest.inputs[k])
    PROVE  /\ IsTensor(w)
           /\ manifest.inputs[k].kind = "generated" =>
                w \in Generate(manifest.inputs[k])
           /\ (/\ manifest.inputs[k].kind = "external"
               /\ manifest.inputs[k].port \in DOMAIN external_values)
              => w = external_values[manifest.inputs[k].port]
  <1> DEFINE input == manifest.inputs[k]
  <1>1. input.kind \in {"external", "generated", "defaulted", "stateful"}
    BY DEF InputsSound, InputKinds
  <1> HIDE DEF input
  <1>0. w \in DeclaredValue(input)
    BY DEF input
  <1>2. CASE input.kind = "external"
    <2>1. input.port \in DOMAIN external_values
             => w = external_values[input.port] /\ IsTensor(w)
      BY <1>0, <1>2 DEF DeclaredValue, AllTensors
    <2>2. CASE input.port \notin DOMAIN external_values /\ VisionRoute(input.port) # {}
      <3>1. w \in Known(endpoint_values, VisionRoute(input.port))
        BY <1>0, <1>2, <2>2 DEF DeclaredValue
      <3>2. IsTensor(w)
        BY <3>1, KnownIs DEF AllTensors
      <3>3. QED
        BY <1>2, <2>2, <3>2 DEF input
    <2>3. CASE input.port \notin DOMAIN external_values /\ VisionRoute(input.port) = {}
      <3>1. IsTensor(w)
        BY <1>0, <1>2, <2>3, HostTensorIs DEF DeclaredValue
      <3>2. QED
        BY <1>2, <2>3, <3>1 DEF input
    <2>4. QED
      BY <1>2, <2>1, <2>2, <2>3 DEF input
  <1>3. CASE input.kind = "generated"
    <2>1. w \in Generate(input)
      BY <1>0, <1>3 DEF DeclaredValue
    <2>2. QED
      BY <1>3, <2>1, GeneratedIs DEF input
  <1>4. CASE input.kind = "defaulted"
    BY <1>0, <1>4, HostTensorIs DEF DeclaredValue, input
  <1>5. CASE input.kind = "stateful"
    BY <1>0, <1>5 DEF DeclaredValue
  <1>6. QED
    BY <1>1, <1>2, <1>3, <1>4, <1>5

\* What each source of an input's tensor, in the order they are asked, gives.
ResolvesTo(port, w) ==
    LET state == FindInputState(port) \cap DOMAIN state_values
    IN /\ IsTensor(w)
       /\ port \in run.overrides => w = HostTensor(run.pass)
       /\ port \notin run.overrides =>
            /\ \A s \in state : w = state_values[s]
            /\ state = {} => \A i \in FindConnection(port, FALSE) :
                 LET c == manifest.connections[i]
                 IN /\ c.source \in DOMAIN endpoint_values
                    /\ w \in ApplyConnection(c, endpoint_values[c.source], {})
            /\ state = {} /\ FindConnection(port, FALSE) = {} =>
                 \E k \in FindDeclaredInput(port) :
                     w \in DeclaredValue(manifest.inputs[k])

LEMMA ResolvedIs ==
    ASSUME Sound(manifest), AllTensors(external_values),
           AllTensors(endpoint_values), AllTensors(state_values),
           NEW port, NEW w \in ResolveInput(port)
    PROVE  ResolvesTo(port, w)
  <1> DEFINE state == Known(state_values, FindInputState(port))
             connections == FindConnection(port, FALSE)
             source(i) == manifest.connections[i].source
             fed == UNION {UNION {ApplyConnection(manifest.connections[i], v, {}) :
                                    v \in Known(endpoint_values, {source(i)})} :
                             i \in connections}
             declared == UNION {DeclaredValue(manifest.inputs[i]) :
                                  i \in FindDeclaredInput(port)}
  <1>0. w \in (IF port \in run.overrides THEN {HostTensor(run.pass)}
               ELSE IF state # {} THEN state
               ELSE IF connections # {} THEN fed ELSE declared)
    BY DEF ResolveInput
  <1>1. CASE port \in run.overrides
    BY <1>0, <1>1, HostTensorIs DEF ResolvesTo
  <1>2. CASE port \notin run.overrides /\ state # {}
    <2>1. PICK s \in FindInputState(port) \cap DOMAIN state_values : w = state_values[s]
      BY <1>0, <1>2, KnownIs
    <2>2. \A r \in FindInputState(port) : r = s
      BY <2>1 DEF FindInputState, Sound, StatesSound
    <2>3. IsTensor(w)
      BY <2>1 DEF AllTensors
    <2>4. QED
      BY <1>2, <2>1, <2>2, <2>3 DEF ResolvesTo
  <1>3. CASE port \notin run.overrides /\ state = {} /\ connections # {}
    <2> DEFINE through(i) == UNION {ApplyConnection(manifest.connections[i], v, {}) :
                                      v \in Known(endpoint_values, {source(i)})}
    <2>0. w \in UNION {through(i) : i \in connections}
      BY <1>0, <1>3
    <2> HIDE DEF through
    <2>1. PICK i \in connections : w \in through(i)
      BY <2>0
    <2>2. PICK v \in Known(endpoint_values, {source(i)}) :
              w \in ApplyConnection(manifest.connections[i], v, {})
      BY <2>1 DEF through
    <2>3. source(i) \in DOMAIN endpoint_values /\ v = endpoint_values[source(i)]
      BY <2>2 DEF Known
    <2>4. \A j \in connections : j = i
      BY <2>1 DEF FindConnection, Sound, ConnectionsSound
    <2>5. IsTensor(w)
      BY <2>2, <2>3, AppliedIs DEF AllTensors, Applied
    <2>6. FindInputState(port) \cap DOMAIN state_values = {}
      BY <1>3 DEF Known
    <2>7. QED
      BY <1>3, <2>2, <2>3, <2>4, <2>5, <2>6 DEF ResolvesTo
  <1>4. CASE port \notin run.overrides /\ state = {} /\ connections = {}
    <2>1. PICK k \in FindDeclaredInput(port) : w \in DeclaredValue(manifest.inputs[k])
      BY <1>0, <1>4
    <2>2. IsTensor(w)
      BY <2>1, DeclaredIs DEF FindDeclaredInput, Sound
    <2>3. FindInputState(port) \cap DOMAIN state_values = {}
      BY <1>4 DEF Known
    <2>4. QED
      BY <1>4, <2>1, <2>2, <2>3 DEF ResolvesTo
  <1>5. QED
    BY <1>1, <1>2, <1>3, <1>4
-----------------------------------------------------------------------------
(* What a session is between two steps *)

LEMMA PutTensor ==
    ASSUME NEW f, AllTensors(f), NEW key, NEW v, IsTensor(v)
    PROVE  AllTensors(Put(f, key, v))
  BY DEF AllTensors, Put

LEMMA OverTensors ==
    ASSUME NEW f, AllTensors(f), NEW g, AllTensors(g)
    PROVE  AllTensors(Over(f, g))
  BY DEF AllTensors, Over

LEMMA WithoutIs ==
    ASSUME NEW f, NEW keys
    PROVE  /\ DOMAIN Without(f, keys) = DOMAIN f \ keys
           /\ \A k \in DOMAIN f \ keys : Without(f, keys)[k] = f[k]
           /\ AllTensors(f) => AllTensors(Without(f, keys))
  BY DEF AllTensors, Without

RunSound(r) ==
    /\ DOMAIN r = DOMAIN Idle
    /\ r.at \in {"idle", "sources", "ordering", "components", "states"}
    /\ r.at # "idle" => r.stage \in Stages
    /\ r.pass \in Nat /\ r.next \in Nat /\ r.port \in Nat

LEMMA SessionHolds ==
    ASSUME phase = "loaded", UNCHANGED package, RunSound(run'),
           AllTensors(external_values)', AllTensors(endpoint_values)',
           AllTensors(state_values)',
           DOMAIN external_values' \subseteq ExternalPorts
    PROVE  SessionInv'
  <1>1. phase' = phase /\ manifest' = manifest
    BY DEF package
  <1>2. Stages' = Stages /\ ExternalPorts' = ExternalPorts
    BY <1>1 DEF Stages, ExternalPorts
  <1>3. Idle' = Idle
    BY DEF Idle
  <1>4. QED
    BY <1>1, <1>2, <1>3 DEF SessionInv, RunSound

LEMMA SessionInit == DataflowInit => SessionInv
  <1>1. SUFFICES ASSUME DataflowInit PROVE SessionInv
    OBVIOUS
  <1>2. /\ run = Idle /\ external_values = <<>> /\ endpoint_values = <<>>
        /\ state_values = <<>> /\ phase = "start"
    BY <1>1 DEF DataflowInit, PackageInit
  <1>3. AllTensors(<<>>)
    BY DEF AllTensors
  <1>4. /\ run.at = "idle" /\ run.pass = 0 /\ run.next = 0 /\ run.port = 0
    BY <1>2 DEF Idle
  <1>5. QED
    BY <1>2, <1>3, <1>4 DEF SessionInv

\* Nothing of a session exists while the package is being loaded.
LEMMA LoadingKeepsSession ==
    ASSUME SessionInv, PackageNext, UNCHANGED session
    PROVE  SessionInv'
  <1>1. phase # "loaded"
    BY DEF PackageNext, ParseDocument, CheckPlacement, OpenComponent, FileFails,
           ResolveAssets, Construct
  <1>2. /\ run = Idle /\ external_values = <<>> /\ endpoint_values = <<>>
        /\ state_values = <<>>
    BY <1>1 DEF SessionInv
  <1>3. /\ run' = Idle /\ external_values' = <<>> /\ endpoint_values' = <<>>
        /\ state_values' = <<>>
    BY <1>2 DEF session, values
  <1>4. AllTensors(<<>>)
    BY DEF AllTensors
  <1>5. /\ AllTensors(external_values)' /\ AllTensors(endpoint_values)'
        /\ AllTensors(state_values)'
    BY <1>3, <1>4
  <1>6. Idle.at = "idle" /\ Idle.pass = 0 /\ Idle.next = 0 /\ Idle.port = 0
    BY DEF Idle
  <1>7. DOMAIN external_values' \subseteq ExternalPorts'
    BY <1>3
  <1>8. run' = Idle' /\ run'.at = "idle" /\ DOMAIN run' = DOMAIN Idle'
    BY <1>3, <1>6 DEF Idle
  <1>9. run'.pass = 0 /\ run'.next = 0 /\ run'.port = 0
    BY <1>3, <1>6
  <1>10. QED
    BY <1>3, <1>5, <1>7, <1>8, <1>9 DEF SessionInv

LEMMA IdleIs ==
    DOMAIN Idle = {"at", "stage", "overrides", "empty", "guided", "modality",
                   "pass", "next", "port", "skipped", "copied", "error"}
  BY DEF Idle

\* What a request to step a stage leaves: a pass that starts putting the stage in
\* order, or one that failed before it ran anything.
Refusals == {"unknown input", "no guidance"}

Begins(name) ==
    /\ \E names : StoreExternalInputs(names, run.pass + 1)
    /\ DOMAIN run' = DOMAIN Idle /\ run'.stage = name
    /\ run'.pass = run.pass + 1 /\ run'.port = 0
    /\ \/ /\ run'.at = "sources" /\ run'.next = 1 /\ run'.error = Idle.error
          /\ StartOrder(StageOf(name))
       \/ run'.at = "idle" /\ run'.next = 0 /\ run'.error \in Refusals

LEMMA StepStageBegins ==
    ASSUME StepStage
    PROVE  \E name \in Stages : Begins(name)
  <1>1. PICK call \in {c \in ToSet(Asked.calls) : c.stage \in Stages} :
          LET stage == StageOf(call.stage)
              inputs == call.inputs \ ExtractGuidanceInputs(stage, call.inputs)
              known == {n \in inputs : PortsNamed(n) # {}}
              guided == call.guided /\ Guidance(stage) # <<>>
              begun == [Idle EXCEPT !.stage = call.stage, !.pass = run.pass + 1,
                                    !.overrides = call.overrides,
                                    !.empty = (inputs = {}),
                                    !.guided = guided,
                                    !.modality = call.modality]
          IN IF known # inputs
             THEN /\ \E stored \in SUBSET known :
                        StoreExternalInputs(stored, run.pass + 1)
                  /\ run' = [begun EXCEPT !.error = "unknown input"]
             ELSE /\ StoreExternalInputs(known, run.pass + 1)
                  /\ IF guided /\ ~GuidanceResolves(stage, guidance_values',
                                                   call.overrides)
                     THEN run' = [begun EXCEPT !.error = "no guidance"]
                     ELSE /\ run' = [begun EXCEPT !.at = "sources", !.next = 1]
                          /\ StartOrder(stage)
    BY DEF StepStage
  <1> DEFINE stage == StageOf(call.stage)
             inputs == call.inputs \ ExtractGuidanceInputs(stage, call.inputs)
             guided == call.guided /\ Guidance(stage) # <<>>
             begun == [Idle EXCEPT !.stage = call.stage, !.pass = run.pass + 1,
                                   !.overrides = call.overrides,
                                   !.empty = (inputs = {}),
                                   !.guided = guided,
                                   !.modality = call.modality]
  <1>2. /\ \E names : StoreExternalInputs(names, run.pass + 1)
        /\ \/ run' = [begun EXCEPT !.error = "unknown input"]
           \/ run' = [begun EXCEPT !.error = "no guidance"]
           \/ /\ run' = [begun EXCEPT !.at = "sources", !.next = 1]
              /\ StartOrder(stage)
    BY <1>1
  <1>3. /\ DOMAIN begun = DOMAIN Idle /\ begun.at = "idle"
        /\ begun.stage = call.stage /\ begun.pass = run.pass + 1
        /\ begun.next = 0 /\ begun.port = 0 /\ begun.error = Idle.error
    BY DEF Idle
  <1>4. \/ run' = [begun EXCEPT !.error = "unknown input"]
        \/ run' = [begun EXCEPT !.error = "no guidance"]
        \/ /\ run' = [begun EXCEPT !.at = "sources", !.next = 1]
           /\ StartOrder(StageOf(call.stage))
    BY <1>2
  <1>5. (\E names : StoreExternalInputs(names, run.pass + 1)) /\ call.stage \in Stages
    BY <1>1, <1>2
  <1> HIDE DEF begun
  <1>6. CASE \E error \in Refusals : run' = [begun EXCEPT !.error = error]
    BY <1>3, <1>5, <1>6, IdleIs DEF Begins
  <1>7. CASE /\ run' = [begun EXCEPT !.at = "sources", !.next = 1]
             /\ StartOrder(StageOf(call.stage))
    BY <1>3, <1>5, <1>7, IdleIs DEF Begins
  <1>8. QED
    BY <1>4, <1>6, <1>7 DEF Refusals

LEMMA StepStageKeepsSession ==
    ASSUME SessionInv, StepStage
    PROVE  SessionInv'
  <1>1. /\ phase = "loaded" /\ UNCHANGED package
        /\ endpoint_values' = endpoint_values /\ state_values' = state_values
    BY DEF StepStage
  <1>2. PICK name \in Stages : Begins(name)
    BY StepStageBegins
  <1>3. PICK pass : pass = run.pass + 1
    OBVIOUS
  <1>4. pass \in Nat
    BY <1>3 DEF SessionInv
  <1>8. RunSound(run')
    BY <1>2, <1>3, <1>4 DEF Begins, RunSound
  <1>9. /\ AllTensors(external_values)'
        /\ DOMAIN external_values' \subseteq ExternalPorts
    <2>1. PICK names : StoreExternalInputs(names, pass)
      BY <1>2, <1>3 DEF Begins
    <2> DEFINE ports == UNION {PortsNamed(n) : n \in names}
               stored == [p \in ports |-> HostTensor(pass)]
    <2>2. external_values' = Over(stored, external_values)
      BY <2>1 DEF StoreExternalInputs
    <2>3. AllTensors(stored)
      BY HostTensorIs DEF AllTensors
    <2>4. ports \subseteq ExternalPorts
      <3>1. \A n : PortsNamed(n) \subseteq ExternalPorts
        BY DEF PortsNamed, ExternalPorts, Answers
      <3>2. QED
        BY <3>1
    <2>5. DOMAIN stored = ports
      OBVIOUS
    <2> HIDE DEF stored, ports
    <2>6. DOMAIN Over(stored, external_values) = ports \cup DOMAIN external_values
      BY <2>5, OverIs
    <2>7. AllTensors(Over(stored, external_values))
      BY <2>3, OverTensors DEF SessionInv
    <2>8. QED
      BY <1>1, <2>2, <2>4, <2>6, <2>7 DEF SessionInv
  <1>10. /\ AllTensors(endpoint_values)' /\ AllTensors(state_values)'
    BY <1>1 DEF SessionInv
  <1>11. QED
    BY <1>1, <1>8, <1>9, <1>10, SessionHolds

\* A step of a pass that only moves on.
LEMMA MovesOn ==
    ASSUME SessionInv, run.at # "idle", UNCHANGED package, UNCHANGED values,
           RunSound(run')
    PROVE  SessionInv'
  <1>1. /\ external_values' = external_values
        /\ endpoint_values' = endpoint_values /\ state_values' = state_values
    BY DEF values
  <1>2. /\ AllTensors(external_values)' /\ AllTensors(endpoint_values)'
        /\ AllTensors(state_values)'
    BY <1>1 DEF SessionInv
  <1>3. QED
    BY <1>1, <1>2, SessionHolds DEF SessionInv

\* The ways a step changes the run.
LEMMA RunMoves ==
    ASSUME SessionInv, run.at # "idle"
    PROVE  /\ RunSound(run)
           /\ \A error : RunSound([run EXCEPT !.at = "idle", !.error = error])
           /\ RunSound([run EXCEPT !.next = @ + 1])
           /\ RunSound([run EXCEPT !.at = "ordering"])
           /\ RunSound([run EXCEPT !.at = "idle"])
           /\ RunSound([run EXCEPT !.at = "components", !.next = 1])
           /\ RunSound([run EXCEPT !.at = "states", !.next = 1])
           /\ RunSound([run EXCEPT !.next = @ + 1, !.port = 0])
           /\ \A x : RunSound([run EXCEPT !.next = @ + 1, !.skipped = x])
           /\ \A x : RunSound([run EXCEPT !.port = 1, !.copied = x])
           /\ \A x : RunSound([run EXCEPT !.port = @ + 1, !.copied = x])
  <1>1. RunSound(run)
    BY DEF SessionInv, RunSound
  <1>2. run.next + 1 \in Nat /\ run.port + 1 \in Nat
    BY <1>1 DEF RunSound
  <1>3. QED
    BY <1>1, <1>2, IdleIs DEF RunSound

\* The steps of a pass that only move on.
LEMMA StepsKeepSession ==
    ASSUME SessionInv,
           \/ AddSource \/ EndSources \/ PopReady \/ DropEdge \/ NextPop
           \/ EndOrder \/ SkipComponent \/ BeginComponent \/ StopPass
           \/ EndComponents
    PROVE  SessionInv'
  <1> DEFINE Fine == run.at # "idle" /\ UNCHANGED package /\ UNCHANGED values
                       /\ RunSound(run')
  <1>1. CASE AddSource
    BY <1>1, RunMoves, MovesOn DEF AddSource
  <1>2. CASE EndSources
    BY <1>2, RunMoves, MovesOn DEF EndSources
  <1>3. CASE PopReady
    <2>1. run.at = "ordering" /\ UNCHANGED <<package, values, run>>
      BY <1>3 DEF PopReady
    <2>2. QED
      BY <2>1, RunMoves, MovesOn
  <1>4. CASE DropEdge
    <2>1. run.at = "ordering" /\ UNCHANGED <<package, values, run>>
      BY <1>4 DEF DropEdge
    <2>2. QED
      BY <2>1, RunMoves, MovesOn
  <1>5. CASE NextPop
    BY <1>5, RunMoves, MovesOn DEF NextPop
  <1>6. CASE EndOrder
    BY <1>6, RunMoves, MovesOn DEF EndOrder, FailPass
  <1>7. CASE SkipComponent
    BY <1>7, RunMoves, MovesOn DEF SkipComponent, AtComponent
  <1>8. CASE BeginComponent
    BY <1>8, RunMoves, MovesOn DEF BeginComponent, AtComponent
  <1>9. CASE StopPass
    BY <1>9, RunMoves, MovesOn DEF StopPass, FailPass
  <1>10. CASE EndComponents
    BY <1>10, RunMoves, MovesOn DEF EndComponents
  <1>11. QED
    BY <1>1, <1>2, <1>3, <1>4, <1>5, <1>6, <1>7, <1>8, <1>9, <1>10

\* What a resolved input leaves.
ResolvedWith(v) ==
    LET port == Port(run.port)
        direct == BindsDirectly(v, opened[Component.name].input_device)
    IN /\ v \in ResolveInput(port)
       /\ endpoint_values' = Put(endpoint_values, port, v)
       /\ run' = [run EXCEPT !.port = @ + 1,
                             !.copied = IF direct THEN @ ELSE @ \cup {port}]

LEMMA ResolvePortIs ==
    ASSUME ResolvePort
    PROVE  \/ /\ FailPass(Reason(Port(run.port))) /\ UNCHANGED endpoint_values
              /\ ResolveInput(Port(run.port)) = {}
           \/ \E v : ResolvedWith(v)
  <1> DEFINE port == Port(run.port)
             found == ResolveInput(port)
             v == CHOOSE x \in found : TRUE
  <1>1. CASE found = {}
    BY <1>1 DEF ResolvePort, Port
  <1>2. CASE found # {}
    <2>1. v \in found
      BY <1>2
    <2>2. ResolvedWith(v)
      <3>1. port[1] = Component.name
        BY DEF Port
      <3>2. /\ endpoint_values' = Put(endpoint_values, port, v)
            /\ run' = [run EXCEPT !.port = @ + 1,
                                  !.copied = IF BindsDirectly(v, opened[port[1]].input_device)
                                             THEN @ ELSE @ \cup {port}]
        BY <1>2 DEF ResolvePort, Port
      <3>3. QED
        BY <2>1, <3>1, <3>2 DEF ResolvedWith
    <2>3. QED
      BY <2>2
  <1>3. QED
    BY <1>1, <1>2

LEMMA ResolvePortKeepsSession ==
    ASSUME LoadInv, SessionInv, ResolvePort
    PROVE  SessionInv'
  <1>1. /\ run.at = "components" /\ UNCHANGED package
        /\ external_values' = external_values /\ state_values' = state_values
    BY DEF ResolvePort, AtComponent
  <1>2. phase = "loaded" /\ Sound(manifest)
    BY <1>1, LoadedIsSound DEF SessionInv, Accepted
  <1>3. /\ AllTensors(external_values) /\ AllTensors(endpoint_values)
        /\ AllTensors(state_values)
    BY DEF SessionInv
  <1>4. RunSound(run') /\ AllTensors(endpoint_values)'
    <2>1. CASE FailPass(Reason(Port(run.port))) /\ UNCHANGED endpoint_values
      BY <1>1, <1>3, <2>1, RunMoves DEF FailPass
    <2>2. CASE \E v : ResolvedWith(v)
      <3>1. PICK v : ResolvedWith(v)
        BY <2>2
      <3>2. IsTensor(v)
        BY <1>2, <1>3, <3>1, ResolvedIs DEF ResolvedWith, ResolvesTo
      <3>3. AllTensors(Put(endpoint_values, Port(run.port), v))
        BY <1>3, <3>2, PutTensor
      <3>4. endpoint_values' = Put(endpoint_values, Port(run.port), v)
        BY <3>1 DEF ResolvedWith
      <3>5. RunSound(run')
        BY <1>1, <3>1, RunMoves DEF ResolvedWith
      <3>6. QED
        BY <3>3, <3>4, <3>5
    <2>3. QED
      BY <2>1, <2>2, ResolvePortIs
  <1>5. /\ AllTensors(external_values)' /\ AllTensors(state_values)'
    BY <1>1, <1>3
  <1>6. QED
    BY <1>1, <1>2, <1>4, <1>5, SessionHolds DEF SessionInv

\* What a model leaves in its outputs.
Made(c) ==
    [p \in Outputs(c) |->
        [from |-> p, pass |-> run.pass, device |-> OutputDevice(c.name),
         reshaped |-> FALSE]]

LEMMA MadeAreTensors ==
    ASSUME NEW c
    PROVE  AllTensors(Made(c)) /\ DOMAIN Made(c) = Outputs(c)
  BY DEF AllTensors, IsTensor, Made

LEMMA CallModelIs ==
    ASSUME CallModel
    PROVE  /\ endpoint_values' = Over(Made(Component), endpoint_values)
           /\ run' = [run EXCEPT !.next = @ + 1, !.port = 0]
           /\ run.at = "components" /\ run.next \in DOMAIN order
           /\ run.port = Len(Component.inputs) + 1
           /\ UNCHANGED <<package, external_values, state_values,
                          stage_iterations, ordering>>
  BY DEF CallModel, Made, Resolved, AtComponent

LEMMA CallModelKeepsSession ==
    ASSUME SessionInv, CallModel
    PROVE  SessionInv'
  <1> DEFINE made == Made(Component)
  <1>1. /\ run.at = "components" /\ UNCHANGED package
        /\ external_values' = external_values /\ state_values' = state_values
        /\ endpoint_values' = Over(made, endpoint_values)
        /\ run' = [run EXCEPT !.next = @ + 1, !.port = 0]
    BY CallModelIs
  <1>2. AllTensors(made)
    BY MadeAreTensors
  <1> HIDE DEF made
  <1>3. AllTensors(Over(made, endpoint_values))
    BY <1>2, OverTensors DEF SessionInv
  <1>4. RunSound(run')
    BY <1>1, RunMoves
  <1>5. /\ AllTensors(external_values)' /\ AllTensors(state_values)'
        /\ AllTensors(endpoint_values)'
    BY <1>1, <1>3 DEF SessionInv
  <1>6. QED
    BY <1>1, <1>4, <1>5, SessionHolds DEF SessionInv

\* What guidance publishes, or the failure it leaves.
Published(outputs) == [p \in outputs |-> HostTensor(run.pass)]

LEMMA PublishGuidedIs ==
    ASSUME SessionInv, PublishGuided
    PROVE  /\ run.at = "components" /\ UNCHANGED package
           /\ UNCHANGED <<external_values, state_values, ordering>>
           /\ RunSound(run')
           /\ \/ /\ \E S : endpoint_values' = Over(Published(S), endpoint_values)
                 /\ run'.at = "states" /\ run'.error = run.error
              \/ /\ UNCHANGED endpoint_values
                 /\ run'.at = "idle" /\ run'.error = "no guidance"
  <1>1. /\ run.at = "components" /\ UNCHANGED package
        /\ UNCHANGED <<external_values, state_values, ordering>>
    BY DEF PublishGuided
  <1>2. \/ /\ \E S : endpoint_values' = Over(Published(S), endpoint_values)
           /\ run' = [run EXCEPT !.at = "states", !.next = 1]
        \/ /\ UNCHANGED endpoint_values
           /\ run' = [run EXCEPT !.at = "idle", !.error = "no guidance"]
    BY DEF PublishGuided, FailPass, Published
  <1>3. DOMAIN run = DOMAIN Idle
    BY DEF SessionInv
  <1>4. RunSound(run')
    <2>1. /\ RunSound([run EXCEPT !.at = "states", !.next = 1])
          /\ RunSound([run EXCEPT !.at = "idle", !.error = "no guidance"])
      BY <1>1, RunMoves
    <2>2. QED
      BY <1>2, <2>1
  <1>5. /\ run' = [run EXCEPT !.at = "states", !.next = 1]
             => run'.at = "states" /\ run'.error = run.error
        /\ run' = [run EXCEPT !.at = "idle", !.error = "no guidance"]
             => run'.at = "idle" /\ run'.error = "no guidance"
    BY <1>3, IdleIs
  <1>6. QED
    BY <1>1, <1>2, <1>4, <1>5

LEMMA PublishGuidedKeepsSession ==
    ASSUME SessionInv, PublishGuided
    PROVE  SessionInv'
  <1>1. /\ run.at = "components" /\ UNCHANGED package /\ RunSound(run')
        /\ external_values' = external_values /\ state_values' = state_values
    BY PublishGuidedIs
  <1>2. AllTensors(endpoint_values)'
    <2>1. CASE UNCHANGED endpoint_values
      BY <2>1 DEF SessionInv
    <2>2. ASSUME NEW S, endpoint_values' = Over(Published(S), endpoint_values)
          PROVE  AllTensors(endpoint_values)'
      <3>1. AllTensors(Published(S))
        BY HostTensorIs DEF AllTensors, Published
      <3>2. AllTensors(Over(Published(S), endpoint_values))
        BY <3>1, OverTensors DEF SessionInv
      <3>3. QED
        BY <2>2, <3>2
    <2>3. QED
      BY <2>1, <2>2, PublishGuidedIs
  <1>3. AllTensors(external_values)' /\ AllTensors(state_values)'
    BY <1>1 DEF SessionInv
  <1>4. QED
    BY <1>1, <1>2, <1>3, SessionHolds DEF SessionInv

\* What storing a state leaves.
StoredWith(v) ==
    LET s == manifest.states[run.next]
    IN /\ s.output \in DOMAIN endpoint_values
       /\ \E i \in FindStateConnection(s) :
             v \in ApplyConnection(manifest.connections[i],
                                   endpoint_values[s.output],
                                   ResolveInput(s.input))
       /\ state_values' = Put(state_values, s.name, v)
       /\ run' = [run EXCEPT !.next = @ + 1]

LEMMA StoreStateIs ==
    ASSUME StoreState
    PROVE  \/ run' = [run EXCEPT !.next = @ + 1] /\ UNCHANGED state_values
           \/ /\ UNCHANGED state_values
              /\ FailPass(IF FindStateConnection(manifest.states[run.next]) = {}
                          THEN "no recurrent connection" ELSE "no value")
           \/ \E v : StoredWith(v)
  <1> DEFINE s == manifest.states[run.next]
             produced == StageOwns(Stage, s.output[1])
                           /\ s.output \in DOMAIN endpoint_values
             edges == FindStateConnection(s)
             through(i) == ApplyConnection(manifest.connections[i],
                                           endpoint_values[s.output],
                                           ResolveInput(s.input))
             found == UNION {through(i) : i \in edges}
             v == CHOOSE x \in found : TRUE
  <1>1. CASE ~produced \/ found = {}
    BY <1>1 DEF StoreState
  <1>2. CASE produced /\ found # {}
    <2>1. /\ state_values' = Put(state_values, s.name, v)
          /\ run' = [run EXCEPT !.next = @ + 1]
      BY <1>2 DEF StoreState
    <2>2. v \in found
      BY <1>2
    <2> HIDE DEF through, v
    <2>3. \E i \in edges : v \in through(i)
      BY <2>2
    <2>4. StoredWith(v)
      BY <1>2, <2>1, <2>3 DEF StoredWith, through
    <2>5. QED
      BY <2>4
  <1>3. QED
    BY <1>1, <1>2

LEMMA StoreStateKeepsSession ==
    ASSUME SessionInv, StoreState
    PROVE  SessionInv'
  <1>1. /\ run.at = "states" /\ UNCHANGED package
        /\ external_values' = external_values
        /\ endpoint_values' = endpoint_values
    BY DEF StoreState
  <1>2. /\ AllTensors(external_values) /\ AllTensors(endpoint_values)
        /\ AllTensors(state_values)
    BY DEF SessionInv
  <1>3. RunSound(run') /\ AllTensors(state_values)'
    <2>1. CASE run' = [run EXCEPT !.next = @ + 1] /\ UNCHANGED state_values
      BY <1>1, <1>2, <2>1, RunMoves
    <2>2. CASE /\ UNCHANGED state_values
               /\ FailPass(IF FindStateConnection(manifest.states[run.next]) = {}
                           THEN "no recurrent connection" ELSE "no value")
      BY <1>1, <1>2, <2>2, RunMoves DEF FailPass
    <2>3. CASE \E v : StoredWith(v)
      <3> DEFINE s == manifest.states[run.next]
      <3>1. PICK v : StoredWith(v)
        BY <2>3
      <3>2. IsTensor(v)
        <4>1. PICK i \in FindStateConnection(s) :
                  v \in ApplyConnection(manifest.connections[i],
                                        endpoint_values[s.output],
                                        ResolveInput(s.input))
          BY <3>1 DEF StoredWith
        <4>2. IsTensor(endpoint_values[s.output])
          BY <1>2, <3>1 DEF StoredWith, AllTensors
        <4>3. QED
          BY <4>1, <4>2, AppliedIs DEF Applied
      <3>3. AllTensors(Put(state_values, s.name, v))
        BY <1>2, <3>2, PutTensor
      <3>4. state_values' = Put(state_values, s.name, v)
        BY <3>1 DEF StoredWith
      <3>5. RunSound(run')
        BY <1>1, <3>1, RunMoves DEF StoredWith
      <3>6. QED
        BY <3>3, <3>4, <3>5
    <2>4. QED
      BY <2>1, <2>2, <2>3, StoreStateIs
  <1>4. /\ AllTensors(external_values)' /\ AllTensors(endpoint_values)'
    BY <1>1, <1>2
  <1>5. QED
    BY <1>1, <1>3, <1>4, SessionHolds DEF SessionInv

\* Between passes: idle runs.
LEMMA BetweenKeepsSession ==
    ASSUME SessionInv,
           \/ EndPass \/ Reset
           \/ phase = "loaded" /\ \E name \in Stages : ReleaseStage(name)
    PROVE  SessionInv'
  <1>1. CASE EndPass
    <2>1. /\ run.at = "states" /\ UNCHANGED package
          /\ external_values' = external_values
          /\ endpoint_values' = endpoint_values /\ state_values' = state_values
          /\ run' = [run EXCEPT !.at = "idle"]
      BY <1>1 DEF EndPass
    <2>2. RunSound(run')
      BY <2>1, RunMoves
    <2>3. /\ AllTensors(external_values)' /\ AllTensors(endpoint_values)'
          /\ AllTensors(state_values)'
      BY <2>1 DEF SessionInv
    <2>4. QED
      BY <2>1, <2>2, <2>3, SessionHolds DEF SessionInv
  <1>2. CASE Reset
    <2>1. /\ phase = "loaded" /\ run.at = "idle" /\ UNCHANGED package
          /\ external_values' = <<>>
          /\ endpoint_values' = <<>> /\ state_values' = <<>> /\ run' = run
      BY <1>2 DEF Reset
    <2>2. RunSound(run')
      BY <2>1 DEF RunSound, SessionInv
    <2>3. AllTensors(<<>>)
      BY DEF AllTensors
    <2>4. /\ AllTensors(external_values)' /\ AllTensors(endpoint_values)'
          /\ AllTensors(state_values)' /\ DOMAIN external_values' = {}
      BY <2>1, <2>3
    <2>5. QED
      BY <2>1, <2>2, <2>4, SessionHolds
  <1>3. CASE phase = "loaded" /\ \E name \in Stages : ReleaseStage(name)
    <2>1. PICK name \in Stages : ReleaseStage(name)
      BY <1>3
    <2>2. /\ phase = "loaded" /\ run.at = "idle" /\ UNCHANGED package /\ run' = run
          /\ \E S : state_values' = Without(state_values, S)
          /\ \E S : external_values' = Without(external_values, S)
          /\ \E S : endpoint_values' = Without(endpoint_values, S)
      BY <2>1 DEF ReleaseStage
    <2>3. RunSound(run')
      BY <2>2 DEF RunSound, SessionInv
    <2>4. /\ AllTensors(external_values) /\ AllTensors(endpoint_values)
          /\ AllTensors(state_values)
      BY DEF SessionInv
    <2>5. /\ AllTensors(state_values)' /\ AllTensors(endpoint_values)'
          /\ AllTensors(external_values)'
          /\ DOMAIN external_values' \subseteq DOMAIN external_values
      <3>1. PICK S : state_values' = Without(state_values, S)
        BY <2>2
      <3>2. PICK T : external_values' = Without(external_values, T)
        BY <2>2
      <3>3. PICK U : endpoint_values' = Without(endpoint_values, U)
        BY <2>2
      <3>4. /\ AllTensors(Without(state_values, S))
            /\ AllTensors(Without(endpoint_values, U))
            /\ AllTensors(Without(external_values, T))
            /\ DOMAIN Without(external_values, T) = DOMAIN external_values \ T
        BY <2>4, WithoutIs
      <3>5. QED
        BY <3>1, <3>2, <3>3, <3>4
    <2>6. QED
      BY <2>2, <2>3, <2>4, <2>5, SessionHolds DEF SessionInv
  <1>4. QED
    BY <1>1, <1>2, <1>3

LEMMA SessionStep == LoadInv /\ SessionInv /\ [Next]_vars => SessionInv'
  <1>1. SUFFICES ASSUME LoadInv, SessionInv, [Next]_vars PROVE SessionInv'
    OBVIOUS
  <1>2. CASE UNCHANGED vars
    <2>1. /\ phase' = phase /\ manifest' = manifest /\ run' = run
          /\ external_values' = external_values
          /\ endpoint_values' = endpoint_values /\ state_values' = state_values
      BY <1>2 DEF vars, package, session, values
    <2>2. Stages' = Stages /\ ExternalPorts' = ExternalPorts /\ Idle' = Idle
      BY <2>1 DEF Stages, ExternalPorts, Idle
    <2>3. QED
      BY <1>1, <2>1, <2>2 DEF SessionInv
  <1>3. CASE PackageNext /\ UNCHANGED session
    BY <1>1, <1>3, LoadingKeepsSession
  <1>4. CASE StepStage
    BY <1>1, <1>4, StepStageKeepsSession
  <1>5. CASE Steps
    BY <1>1, <1>5, StepsKeepSession, ResolvePortKeepsSession,
       CallModelKeepsSession, PublishGuidedKeepsSession, StoreStateKeepsSession,
       BetweenKeepsSession DEF Steps
  <1>6. CASE Reset \/ (phase = "loaded" /\ \E name \in Stages : ReleaseStage(name))
    BY <1>1, <1>6, BetweenKeepsSession
  <1>7. QED
    BY <1>1, <1>2, <1>3, <1>4, <1>5, <1>6 DEF Next
-----------------------------------------------------------------------------
(* The order of a stage *)

Entering(c) == EntersFrom(manifest, OrderingEdges(manifest, Stage), c)

LEMMA EnteringIs ==
    ASSUME NEW c, NEW i
    PROVE  i \in Entering(c) <=>
              /\ i \in DOMAIN manifest.connections
              /\ OrdersStage(manifest, Stage, manifest.connections[i])
              /\ manifest.connections[i].target[1] = c
  BY DEF Entering, EntersFrom, OrderingEdges

LEMMA WaitingIs ==
    ASSUME NEW c, NEW i
    PROVE  i \in Waiting(c) <=>
              /\ i \in Entering(c)
              /\ \/ manifest.connections[i].source[1] \notin ToSet(order)
                 \/ /\ edge > 0 /\ i >= edge
                    /\ manifest.connections[i].source[1] = Popped
  BY DEF Waiting, Entering

\* The stage that runs and the manifest it is a stage of.
LEMMA StageIs ==
    ASSUME LoadInv, SessionInv, run.at # "idle"
    PROVE  /\ phase = "loaded" /\ Sound(manifest)
           /\ IsArray(Stage.components) /\ IsInjective(Stage.components)
           /\ \A c \in ToSet(Stage.components) : HasComponent(manifest, c)
           /\ Len(manifest.connections) \in Nat
           /\ DOMAIN manifest.connections = 1..Len(manifest.connections)
  <1>1. phase = "loaded" /\ run.stage \in Stages
    BY DEF SessionInv
  <1>2. Sound(manifest)
    BY <1>1, LoadedIsSound DEF Accepted
  <1>3. \E i \in DOMAIN manifest.stages : Stage = manifest.stages[i]
    <2>1. Named(manifest.stages, run.stage) # {}
      BY <1>1 DEF Stages, Named
    <2>2. (CHOOSE i \in Named(manifest.stages, run.stage) : TRUE)
             \in Named(manifest.stages, run.stage)
      BY <2>1
    <2>3. QED
      BY <2>2 DEF Stage, StageOf, Named
  <1>4. IsArray(manifest.connections)
    BY <1>2 DEF Sound, ConnectionsSound
  <1>5. QED
    BY <1>1, <1>2, <1>3, <1>4, ArrayIs DEF Sound, StagesSound

LEMMA WaitingIsFinite ==
    ASSUME LoadInv, SessionInv, run.at # "idle", NEW c
    PROVE  /\ IsFiniteSet(Waiting(c))
           /\ Cardinality(Waiting(c)) \in Nat
           /\ Cardinality(Waiting(c)) = 0 <=> Waiting(c) = {}
  <1> DEFINE n == Len(manifest.connections)
  <1>1. Waiting(c) \subseteq 1..n
    BY StageIs, WaitingIs, EnteringIs
  <1>2. IsFiniteSet(1..n)
    <2>1. n \in Int /\ 1 \in Int
      BY StageIs
    <2>2. QED
      BY <2>1, FS_Interval
  <1>3. IsFiniteSet(Waiting(c))
    BY <1>1, <1>2, FS_Subset
  <1>4. QED
    BY <1>3, FS_CardinalityType, FS_EmptySet

\* What the order of a stage rests on does not change.
LEMMA StageKept ==
    ASSUME UNCHANGED package, run'.stage = run.stage
    PROVE  /\ Stage' = Stage /\ manifest' = manifest
           /\ \A c : Entering(c)' = Entering(c)
  <1>1. manifest' = manifest
    BY DEF package
  <1>2. Stage' = Stage
    BY <1>1 DEF Stage, StageOf
  <1>3. OrderingEdges(manifest, Stage)' = OrderingEdges(manifest, Stage)
    BY <1>1, <1>2
  <1>4. QED
    BY <1>1, <1>2, <1>3 DEF Entering

LEMMA OrderKept ==
    ASSUME OrderInv, UNCHANGED package, UNCHANGED ordering,
           run'.stage = run.stage, run'.at = run.at,
           run.at = "sources" => run'.next = run.next
    PROVE  OrderInv'
  <1>1. /\ Stage' = Stage /\ manifest' = manifest
    BY StageKept
  <1>2. /\ indegree' = indegree /\ ready' = ready /\ order' = order /\ edge' = edge
    BY DEF ordering
  <1>3. Popped' = Popped
    BY <1>2 DEF Popped
  <1>4. \A c : Waiting(c)' = Waiting(c)
    BY <1>1, <1>2, <1>3 DEF Waiting
  <1>5. Placed' = Placed /\ Queued' = Queued
    BY <1>1, <1>2 DEF Placed, Queued
  <1>6. QED
    BY <1>1, <1>2, <1>4, <1>5
       DEF OrderInv, Counted, SourcesSoFar, QueuedOnceFree, AllInOrder

LEMMA NothingToOrder ==
    ASSUME run'.at \notin {"sources", "ordering", "components"}
    PROVE  OrderInv'
  BY DEF OrderInv

LEMMA EmptyOrderIs ==
    /\ ToSet(<<>>) = {} /\ IsInjective(<<>>) /\ DOMAIN <<>> = {}
    /\ \A S : <<>> \in Seq(S)
  BY DEF ToSet, IsInjective

LEMMA StepStageStartsOrder ==
    ASSUME LoadInv, SessionInv, StepStage
    PROVE  OrderInv'
  <1>1. CASE run'.at = "sources"
    <2>1. PICK name \in Stages : Begins(name)
      BY StepStageBegins
    <2> DEFINE stage == StageOf(name)
               edges == OrderingEdges(manifest, stage)
    <2>3. StartOrder(stage)
      BY <1>1, <2>1 DEF Begins
    <2>4. run'.stage = name /\ run'.at = "sources" /\ run'.next = 1
      BY <1>1, <2>1 DEF Begins
    <2>5. UNCHANGED package
      BY DEF StepStage
    <2>6. manifest' = manifest
      BY <2>5 DEF package
    <2>7. Stage' = stage
      BY <2>4, <2>6 DEF Stage, StageOf
    <2>8. /\ order' = <<>> /\ ready' = <<>> /\ edge' = 0
          /\ indegree' = [c \in ToSet(stage.components) |->
                            Cardinality(EntersFrom(manifest, edges, c))]
      BY <2>3 DEF StartOrder
    <2>9. LoadInv' /\ SessionInv'
      BY <2>5, LoadKept, StepStageKeepsSession
    <2> HIDE DEF stage
    <2>10. \A c : Waiting(c)' = EntersFrom(manifest, OrderingEdges(manifest, stage), c)
      <3>1. ASSUME NEW c
            PROVE  Waiting(c)' = EntersFrom(manifest, OrderingEdges(manifest, stage), c)
        <4>1. ToSet(order') = {} /\ ~(edge' > 0)
          BY <2>8, EmptyOrderIs
        <4>2. Waiting(c)' =
                {i \in EntersFrom(manifest, OrderingEdges(manifest, stage), c) :
                    \/ manifest.connections[i].source[1] \notin ToSet(order')
                    \/ edge' > 0 /\ i >= edge' /\ manifest.connections[i].source[1] = Popped'}
          BY <2>6, <2>7 DEF Waiting
        <4>3. QED
          BY <4>1, <4>2
      <3>2. QED
        BY <3>1
    <2>11. Len(stage.components) \in Nat
      <3>1. IsArray(Stage'.components)
        <4>1. run'.at # "idle"
          BY <2>4
        <4>2. (LoadInv /\ SessionInv /\ run.at # "idle" => IsArray(Stage.components))'
          BY StageIs, PTL
        <4>3. QED
          BY <2>9, <4>1, <4>2
      <3>2. QED
        BY <2>7, <3>1, ArrayIs
    <2>12. /\ DOMAIN indegree' = ToSet(Stage'.components)
           /\ \A c \in ToSet(Stage'.components) : indegree'[c] = Cardinality(Waiting(c)')
      BY <2>7, <2>8, <2>10
    <2>13. /\ order' \in Seq(ToSet(Stage'.components))
           /\ ready' \in Seq(ToSet(Stage'.components))
           /\ IsInjective(order') /\ IsInjective(ready')
           /\ ToSet(order') \cap ToSet(ready') = {} /\ ToSet(ready') = {}
      BY <2>8, EmptyOrderIs
    <2>14. edge' \in 0..(Len(manifest'.connections) + 1)
      <3>1. Len(manifest'.connections) \in Nat
        <4>1. phase = "loaded"
          BY DEF StepStage
        <4>2. IsArray(manifest.connections)
          BY <4>1, LoadedIsSound DEF Accepted, Sound, ConnectionsSound
        <4>3. QED
          BY <2>6, <4>2, ArrayIs
      <3>2. QED
        BY <2>8, <3>1
    <2>15. /\ run'.next \in 1..(Len(Stage'.components) + 1)
           /\ run'.next - 1 = 0
      BY <2>4, <2>7, <2>11
    <2>16. ToSet(ready') = {Stage'.components[k] :
                k \in {j \in 1..(run'.next - 1) :
                          indegree'[Stage'.components[j]] = 0}}
      BY <2>13, <2>15
    <2>17. Counted'
      <3>1. ~(edge' > 0)
        BY <2>8
      <3> HIDE DEF edges
      <3>2. QED
        BY <2>12, <2>13, <2>14, <3>1 DEF Counted
    <2>18. SourcesSoFar'
      BY <2>8, <2>15, <2>16 DEF SourcesSoFar
    <2>19. QED
      BY <2>4, <2>17, <2>18 DEF OrderInv
  <1>2. CASE run'.at # "sources"
    <2>1. run'.at = "idle"
      BY <1>2, StepStageBegins DEF Begins
    <2>2. QED
      BY <2>1, NothingToOrder
  <1>3. QED
    BY <1>1, <1>2

LEMMA AddSourceKeepsOrder ==
    ASSUME LoadInv, SessionInv, OrderInv, AddSource
    PROVE  OrderInv'
  <1> DEFINE comps == ToSet(Stage.components)
             c == Stage.components[run.next]
  <1>1. /\ run.at = "sources" /\ run.next \in DOMAIN Stage.components
        /\ ready' = IF indegree[c] = 0 THEN Append(ready, c) ELSE ready
        /\ run' = [run EXCEPT !.next = @ + 1]
        /\ UNCHANGED <<package, indegree, order, edge>>
    BY DEF AddSource
  <1>2. run'.at = "sources" /\ run'.stage = run.stage /\ run'.next = run.next + 1
    BY <1>1, IdleIs DEF SessionInv
  <1>3. /\ Stage' = Stage /\ manifest' = manifest
    BY <1>1, <1>2, StageKept
  <1>4. Counted /\ SourcesSoFar
    BY <1>1 DEF OrderInv
  <1>5. /\ IsArray(Stage.components) /\ IsInjective(Stage.components)
        /\ Len(Stage.components) \in Nat
        /\ DOMAIN Stage.components = 1..Len(Stage.components)
    BY <1>1, StageIs, ArrayIs
  <1>6. Popped' = Popped /\ \A x : Waiting(x)' = Waiting(x)
    BY <1>1, <1>3 DEF Popped, Waiting
  <1>7. c \in comps
    BY <1>1 DEF ToSet
  <1>8. c \notin ToSet(ready)
    <2>1. SUFFICES ASSUME c \in ToSet(ready) PROVE FALSE
      OBVIOUS
    <2>2. PICK k \in 1..(run.next - 1) : c = Stage.components[k]
      BY <1>4, <2>1 DEF SourcesSoFar
    <2>3. k \in DOMAIN Stage.components /\ k # run.next
      BY <1>1, <1>5
    <2>4. QED
      BY <1>1, <1>5, <2>2, <2>3 DEF IsInjective
  <1>9. /\ ready' \in Seq(comps) /\ IsInjective(ready')
        /\ ToSet(ready') = IF indegree[c] = 0 THEN ToSet(ready) \cup {c}
                                              ELSE ToSet(ready)
    <2>1. ready \in Seq(comps) /\ IsInjective(ready)
      BY <1>4 DEF Counted
    <2>2. QED
      BY <1>1, <1>7, <1>8, <2>1, AppendNew, AppendIs
  <1>10. Counted'
    <2>1. ToSet(order) = {}
      BY <1>4, EmptyOrderIs DEF SourcesSoFar
    <2>2. QED
      BY <1>1, <1>3, <1>4, <1>6, <1>9, <2>1 DEF Counted
  <1>11. SourcesSoFar'
    <2>1. run'.next \in 1..(Len(Stage.components) + 1)
      BY <1>1, <1>2, <1>5
    <2>2. 1..(run'.next - 1) = 1..(run.next - 1) \cup {run.next}
      BY <1>1, <1>2, <1>5
    <2> HIDE DEF c
    <2> DEFINE found(n) == {Stage.components[k] :
                              k \in {j \in 1..n : indegree[Stage.components[j]] = 0}}
    <2>3. found(run'.next - 1) = IF indegree[c] = 0 THEN found(run.next - 1) \cup {c}
                                                   ELSE found(run.next - 1)
      BY <2>2 DEF c
    <2>4. ToSet(ready) = found(run.next - 1)
      BY <1>4 DEF SourcesSoFar
    <2>5. ToSet(ready') = found(run'.next - 1)
      BY <1>9, <2>3, <2>4
    <2>6. order' = <<>> /\ edge' = 0
      BY <1>1, <1>4 DEF SourcesSoFar
    <2>7. indegree' = indegree
      BY <1>1
    <2>8. QED
      BY <1>3, <2>1, <2>5, <2>6, <2>7 DEF SourcesSoFar
  <1>12. QED
    BY <1>2, <1>10, <1>11 DEF OrderInv

LEMMA EndSourcesKeepsOrder ==
    ASSUME LoadInv, SessionInv, OrderInv, EndSources
    PROVE  OrderInv'
  <1>1. /\ run.at = "sources" /\ run.next = Len(Stage.components) + 1
        /\ run' = [run EXCEPT !.at = "ordering"]
        /\ UNCHANGED package /\ UNCHANGED ordering
    BY DEF EndSources
  <1>2. run'.at = "ordering" /\ run'.stage = run.stage
    BY <1>1, IdleIs DEF SessionInv
  <1>3. /\ Stage' = Stage /\ manifest' = manifest
    BY <1>1, <1>2, StageKept
  <1>4. /\ indegree' = indegree /\ ready' = ready /\ order' = order /\ edge' = edge
    BY <1>1 DEF ordering
  <1>5. Popped' = Popped /\ \A x : Waiting(x)' = Waiting(x)
    BY <1>3, <1>4 DEF Popped, Waiting
  <1>6. Counted /\ SourcesSoFar
    BY <1>1 DEF OrderInv
  <1>7. Counted'
    BY <1>3, <1>4, <1>5, <1>6 DEF Counted
  <1>8. QueuedOnceFree
    <2>1. /\ Len(Stage.components) \in Nat
          /\ DOMAIN Stage.components = 1..Len(Stage.components)
      BY <1>1, StageIs, ArrayIs
    <2>2. run.next - 1 = Len(Stage.components)
      BY <1>1, <2>1
    <2>3. ToSet(ready) = {Stage.components[k] :
            k \in {j \in DOMAIN Stage.components : indegree[Stage.components[j]] = 0}}
      BY <1>6, <2>1, <2>2 DEF SourcesSoFar
    <2>4. ASSUME NEW c \in ToSet(Stage.components)
          PROVE  c \in ToSet(ready) <=> indegree[c] = 0
      BY <2>3 DEF ToSet
    <2>5. Queued = ToSet(ready)
      BY <1>6, EmptyOrderIs DEF SourcesSoFar, Queued
    <2>6. ASSUME NEW c \in ToSet(Stage.components)
          PROVE  indegree[c] = 0 <=> Waiting(c) = {}
      <3>1. indegree[c] = Cardinality(Waiting(c))
        BY <1>6 DEF Counted
      <3>2. run.at # "idle"
        BY <1>1
      <3>3. QED
        BY <3>1, <3>2, WaitingIsFinite
    <2>7. QED
      BY <2>4, <2>5, <2>6 DEF QueuedOnceFree
  <1>9. QueuedOnceFree'
    <2>1. Queued' = Queued
      BY <1>4 DEF Queued
    <2>2. QED
      BY <1>3, <1>5, <1>8, <2>1 DEF QueuedOnceFree
  <1>10. Placed'
    <2>1. DOMAIN order' = {}
      BY <1>4, <1>6, EmptyOrderIs DEF SourcesSoFar
    <2>2. QED
      BY <2>1 DEF Placed
  <1>11. QED
    BY <1>2, <1>7, <1>9, <1>10 DEF OrderInv

\* What moves from the ready queue to the order waited for nothing.
LEMMA PopReadyKeepsOrder ==
    ASSUME LoadInv, SessionInv, OrderInv, PopReady
    PROVE  OrderInv'
  <1> DEFINE comps == ToSet(Stage.components)
             h == Head(ready)
  <1>1. /\ run.at = "ordering" /\ edge = 0 /\ ready # <<>>
        /\ order' = Append(order, h) /\ ready' = Tail(ready) /\ edge' = 1
        /\ UNCHANGED package /\ run' = run /\ indegree' = indegree
    BY DEF PopReady
  <1>2. /\ Stage' = Stage /\ manifest' = manifest
        /\ \A x : Entering(x)' = Entering(x)
    BY <1>1, StageKept
  <1>3. Counted /\ QueuedOnceFree /\ Placed
    BY <1>1 DEF OrderInv
  <1>4. /\ order \in Seq(comps) /\ ready \in Seq(comps)
        /\ IsInjective(order) /\ IsInjective(ready)
        /\ ToSet(order) \cap ToSet(ready) = {}
    BY <1>3 DEF Counted
  <1>5. /\ h \in ToSet(ready) /\ Tail(ready) \in Seq(comps)
        /\ ToSet(Tail(ready)) = ToSet(ready) \ {h}
        /\ IsInjective(Tail(ready))
    BY <1>1, <1>4, TailIs
  <1>6. h \in comps /\ h \notin ToSet(order)
    <2>1. ToSet(ready) \subseteq comps
      BY <1>4 DEF ToSet
    <2>2. QED
      BY <1>4, <1>5, <2>1
  <1> HIDE DEF h
  <1>7. /\ Append(order, h) \in Seq(comps) /\ IsInjective(Append(order, h))
        /\ ToSet(Append(order, h)) = ToSet(order) \cup {h}
    BY <1>4, <1>6, AppendNew, AppendIs
  <1>8. /\ Len(order) \in Nat /\ DOMAIN order = 1..Len(order)
        /\ Len(order') = Len(order) + 1
        /\ DOMAIN order' = 1..(Len(order) + 1)
        /\ order'[Len(order) + 1] = h
        /\ \A a \in 1..Len(order) : order'[a] = order[a]
    <2>1. order' = Append(order, h)
      BY <1>1
    <2>2. QED
      BY <1>4, <1>6, <2>1
  <1>9. Popped' = h
    BY <1>8 DEF Popped
  <1>10. \A x : Waiting(x)' = Waiting(x)
    <2>1. ASSUME NEW x, NEW i
          PROVE  i \in Waiting(x)' <=> i \in Waiting(x)
      <3> DEFINE source == manifest.connections[i].source[1]
      <3>1. i \in Waiting(x) <=> i \in Entering(x) /\ source \notin ToSet(order)
        BY <1>1, WaitingIs
      <3>2. i \in Waiting(x)' <=>
              /\ i \in Entering(x)
              /\ \/ source \notin ToSet(order')
                 \/ edge' > 0 /\ i >= edge' /\ source = Popped'
        BY <1>2 DEF Waiting, Entering
      <3>3. i \in Entering(x) => i >= 1
        <4>1. DOMAIN manifest.connections = 1..Len(manifest.connections)
              /\ Len(manifest.connections) \in Nat
          BY <1>1, StageIs
        <4>2. QED
          BY <4>1, EnteringIs
      <3>4. source \notin ToSet(order')
              <=> source \notin ToSet(order) /\ source # h
        BY <1>1, <1>7
      <3>5. edge' = 1 /\ 1 > 0
        BY <1>1
      <3>6. QED
        BY <1>6, <1>9, <3>1, <3>2, <3>3, <3>4, <3>5
    <2>2. QED
      BY <2>1 DEF Waiting
  <1>11. Queued' = Queued
    BY <1>1, <1>5, <1>7 DEF Queued
  <1>12. Counted'
    <2>1. ToSet(order') \cap ToSet(ready') = {}
      BY <1>1, <1>4, <1>5, <1>7
    <2>2. order' # <<>>
      BY <1>8
    <2>3. edge' \in 0..(Len(manifest.connections) + 1)
      BY <1>1, StageIs
    <2>4. /\ order' \in Seq(comps) /\ IsInjective(order')
          /\ ready' \in Seq(comps) /\ IsInjective(ready')
      BY <1>1, <1>5, <1>7
    <2>5. /\ DOMAIN indegree' = comps
          /\ \A x \in comps : indegree'[x] = Cardinality(Waiting(x)')
      BY <1>1, <1>3, <1>10 DEF Counted
    <2>6. QED
      BY <1>2, <2>1, <2>2, <2>3, <2>4, <2>5 DEF Counted
  <1>13. QueuedOnceFree'
    BY <1>2, <1>3, <1>10, <1>11 DEF QueuedOnceFree
  <1>14. Placed'
    <2>1. SUFFICES ASSUME NEW a \in DOMAIN order', NEW i \in Entering(order'[a])
                   PROVE  \E b \in DOMAIN order' :
                            /\ b < a
                            /\ order'[b] = manifest.connections[i].source[1]
      BY <1>2 DEF Placed, Entering
    <2>2. CASE a \in 1..Len(order)
      <3>1. PICK b \in DOMAIN order :
                b < a /\ order[b] = manifest.connections[i].source[1]
        BY <1>3, <1>8, <2>1, <2>2 DEF Placed, Entering
      <3>2. QED
        BY <1>8, <2>2, <3>1
    <2>3. CASE a = Len(order) + 1
      <3>1. Waiting(h) = {}
        BY <1>3, <1>5, <1>6 DEF QueuedOnceFree, Queued
      <3>2. i \in Entering(h)
        BY <1>8, <2>1, <2>3
      <3>3. manifest.connections[i].source[1] \in ToSet(order)
        BY <3>1, <3>2, WaitingIs
      <3>4. PICK b \in DOMAIN order : order[b] = manifest.connections[i].source[1]
        BY <3>3 DEF ToSet
      <3>5. QED
        BY <1>8, <2>3, <3>4
    <2>4. QED
      BY <1>8, <2>2, <2>3
  <1>15. QED
    BY <1>1, <1>12, <1>13, <1>14 DEF OrderInv

\* A connection that leaves the popped component is waited for no longer.
LEMMA DropEdgeKeepsOrder ==
    ASSUME LoadInv, SessionInv, OrderInv, DropEdge
    PROVE  OrderInv'
  <1> DEFINE comps == ToSet(Stage.components)
             e == manifest.connections[edge]
             t == e.target[1]
             leaves == e.source[1] = Popped /\ OrdersStage(manifest, Stage, e)
             source(i) == manifest.connections[i].source[1]
  <1>1. /\ run.at = "ordering" /\ edge \in DOMAIN manifest.connections
        /\ edge' = edge + 1 /\ order' = order
        /\ UNCHANGED package /\ run' = run
        /\ IF leaves
           THEN /\ indegree' = [indegree EXCEPT ![t] = indegree[t] - 1]
                /\ ready' = IF indegree[t] - 1 = 0 THEN Append(ready, t) ELSE ready
           ELSE UNCHANGED <<indegree, ready>>
    BY DEF DropEdge
  <1>2. /\ Stage' = Stage /\ manifest' = manifest
        /\ \A x : Entering(x)' = Entering(x)
    BY <1>1, StageKept
  <1>3. Counted /\ QueuedOnceFree /\ Placed
    BY <1>1 DEF OrderInv
  <1>4. /\ Len(manifest.connections) \in Nat
        /\ DOMAIN manifest.connections = 1..Len(manifest.connections)
    BY <1>1, StageIs
  <1>5. /\ edge \in Nat /\ edge > 0 /\ edge' > 0 /\ edge' \in Nat
        /\ edge' \in 0..(Len(manifest.connections) + 1)
        /\ \A i \in DOMAIN manifest.connections : i >= edge' <=> i >= edge /\ i # edge
    BY <1>1, <1>4
  <1>6. Popped' = Popped /\ order # <<>>
    BY <1>1, <1>3, <1>5 DEF Popped, Counted
  <1>7. Popped \in ToSet(order)
    <2>1. order \in Seq(comps)
      BY <1>3 DEF Counted
    <2>2. Len(order) \in DOMAIN order
      BY <1>6, <2>1
    <2>3. QED
      BY <2>2 DEF Popped, ToSet
  <1>8. \A x : Waiting(x)' = Waiting(x) \ {i \in Waiting(x) : i = edge /\ source(i) = Popped}
    <2>1. ASSUME NEW x, NEW i
          PROVE  i \in Waiting(x)' <=>
                    i \in Waiting(x) /\ ~(i = edge /\ source(i) = Popped)
      <3>1. i \in Waiting(x) <=>
              /\ i \in Entering(x)
              /\ source(i) \notin ToSet(order) \/ (i >= edge /\ source(i) = Popped)
        BY <1>5, WaitingIs
      <3>2. i \in Waiting(x)' <=>
              /\ i \in Entering(x)
              /\ source(i) \notin ToSet(order) \/ (i >= edge' /\ source(i) = Popped)
        BY <1>1, <1>2, <1>5, <1>6 DEF Waiting, Entering
      <3>3. i \in Entering(x) => i \in DOMAIN manifest.connections
        BY EnteringIs
      <3> HIDE DEF source
      <3>4. QED
        BY <1>5, <1>7, <3>1, <3>2, <3>3
    <2>2. QED
      BY <2>1 DEF Waiting
  <1>9. CASE ~leaves
    <2>1. \A x : Waiting(x)' = Waiting(x)
      <3>1. ASSUME NEW x, NEW i \in Waiting(x), i = edge, source(i) = Popped
            PROVE  FALSE
        <4>1. OrdersStage(manifest, Stage, e)
          BY <3>1, WaitingIs, EnteringIs
        <4>2. QED
          BY <1>9, <3>1, <4>1
      <3>2. QED
        BY <1>8, <3>1
    <2>2. indegree' = indegree /\ ready' = ready
      BY <1>1, <1>9
    <2>3. Counted'
      BY <1>1, <1>2, <1>3, <1>5, <1>6, <2>1, <2>2 DEF Counted
    <2>4. Queued' = Queued /\ Placed' = Placed
      BY <1>1, <1>2, <2>2 DEF Queued, Placed
    <2>5. QueuedOnceFree'
      BY <1>2, <1>3, <2>1, <2>4 DEF QueuedOnceFree
    <2>6. QED
      BY <1>1, <1>3, <2>3, <2>4, <2>5 DEF OrderInv
  <1>10. CASE leaves
    <2>0. PICK d : d = t
      OBVIOUS
    <2>1. edge \in Waiting(d) /\ source(edge) = Popped
      <3>1. edge \in Entering(d)
        BY <1>1, <1>10, <2>0, EnteringIs
      <3>2. QED
        BY <1>5, <1>10, <3>1, WaitingIs
    <2>2. d \in comps
      BY <1>10, <2>0 DEF OrdersStage, StageOwns
    <2>3. Waiting(d)' = Waiting(d) \ {edge}
      BY <1>8, <2>1
    <2>4. ASSUME NEW x, x # d PROVE Waiting(x)' = Waiting(x)
      <3>1. edge \notin Waiting(x)
        BY <2>0, <2>4, WaitingIs, EnteringIs
      <3>2. QED
        BY <1>8, <3>1
    <2>5. /\ IsFiniteSet(Waiting(d)) /\ Cardinality(Waiting(d)) \in Nat
          /\ IsFiniteSet(Waiting(d)')
          /\ Cardinality(Waiting(d)') = Cardinality(Waiting(d)) - 1
      <3>1. IsFiniteSet(Waiting(d)) /\ Cardinality(Waiting(d)) \in Nat
        <4>1. run.at # "idle"
          BY <1>1
        <4>2. QED
          BY <4>1, WaitingIsFinite
      <3>2. QED
        BY <2>1, <2>3, <3>1, FS_RemoveElement
    <2>6. Cardinality(Waiting(d)') = 0 <=> Waiting(d)' = {}
      BY <2>5, FS_EmptySet
    <2>7. indegree[d] = Cardinality(Waiting(d)) /\ DOMAIN indegree = comps
      BY <1>3, <2>2 DEF Counted
    <2>8. indegree[d] - 1 = 0 <=> Waiting(d)' = {}
      BY <2>5, <2>6, <2>7
    <2>9. d \notin Queued
      BY <1>3, <2>1, <2>2 DEF QueuedOnceFree
    <2>10. /\ ready' \in Seq(comps) /\ IsInjective(ready')
           /\ ToSet(ready') = IF Waiting(d)' = {} THEN ToSet(ready) \cup {d}
                                                  ELSE ToSet(ready)
      <3>1. ready \in Seq(comps) /\ IsInjective(ready) /\ d \notin ToSet(ready)
        BY <1>3, <2>9 DEF Counted, Queued
      <3>2. ready' = IF Waiting(d)' = {} THEN Append(ready, d) ELSE ready
        BY <1>1, <1>10, <2>0, <2>8
      <3>3. QED
        BY <2>2, <3>1, <3>2, AppendNew, AppendIs
    <2>11. Queued' = IF Waiting(d)' = {} THEN Queued \cup {d} ELSE Queued
      BY <1>1, <2>10 DEF Queued
    <2>12. /\ DOMAIN indegree' = comps
           /\ \A x \in comps : indegree'[x] = Cardinality(Waiting(x)')
      <3>1. indegree' = [indegree EXCEPT ![d] = indegree[d] - 1]
        BY <1>1, <1>10, <2>0
      <3>2. \A x \in comps : indegree[x] = Cardinality(Waiting(x))
        BY <1>3 DEF Counted
      <3>3. /\ DOMAIN indegree' = comps
            /\ \A x \in comps : x # d => indegree'[x] = indegree[x]
            /\ indegree'[d] = indegree[d] - 1
        BY <2>2, <2>7, <3>1
      <3>4. QED
        BY <2>4, <2>5, <2>7, <3>2, <3>3
    <2>13. Counted'
      <3>1. ToSet(order') \cap ToSet(ready') = {}
        BY <1>1, <1>3, <2>9, <2>10 DEF Counted, Queued
      <3>2. order' \in Seq(comps) /\ IsInjective(order') /\ order' # <<>>
        BY <1>1, <1>3, <1>6 DEF Counted
      <3>3. QED
        BY <1>2, <1>5, <2>10, <2>12, <3>1, <3>2 DEF Counted
    <2>14. QueuedOnceFree'
      <3>1. ASSUME NEW x \in comps PROVE x \in Queued' <=> Waiting(x)' = {}
        <4>1. x \in Queued <=> Waiting(x) = {}
          BY <1>3 DEF QueuedOnceFree
        <4>2. CASE x = d
          BY <2>9, <2>11, <4>2
        <4>3. CASE x # d
          BY <2>4, <2>11, <4>1, <4>3
        <4>4. QED
          BY <4>2, <4>3
      <3>2. QED
        BY <1>2, <3>1 DEF QueuedOnceFree
    <2>15. Placed' = Placed
      BY <1>1, <1>2 DEF Placed
    <2>16. QED
      BY <1>1, <1>3, <2>13, <2>14, <2>15 DEF OrderInv
  <1>11. QED
    BY <1>9, <1>10

LEMMA NextPopKeepsOrder ==
    ASSUME LoadInv, SessionInv, OrderInv, NextPop
    PROVE  OrderInv'
  <1>1. /\ run.at = "ordering" /\ edge = Len(manifest.connections) + 1
        /\ edge' = 0 /\ UNCHANGED package /\ run' = run
        /\ indegree' = indegree /\ ready' = ready /\ order' = order
    BY DEF NextPop
  <1>2. /\ Stage' = Stage /\ manifest' = manifest
        /\ \A x : Entering(x)' = Entering(x)
    BY <1>1, StageKept
  <1>3. Counted /\ QueuedOnceFree /\ Placed
    BY <1>1 DEF OrderInv
  <1>4. /\ Len(manifest.connections) \in Nat
        /\ DOMAIN manifest.connections = 1..Len(manifest.connections)
    BY <1>1, StageIs
  <1>5. \A x : Waiting(x)' = Waiting(x)
    <2>1. ASSUME NEW x, NEW i
          PROVE  i \in Waiting(x)' <=> i \in Waiting(x)
      <3>1. i \in Entering(x) => ~(i >= edge)
        BY <1>1, <1>4, EnteringIs
      <3>2. i \in Waiting(x) <=>
              i \in Entering(x) /\ manifest.connections[i].source[1] \notin ToSet(order)
        BY <3>1, WaitingIs
      <3>3. i \in Waiting(x)' <=>
              i \in Entering(x) /\ manifest.connections[i].source[1] \notin ToSet(order)
        BY <1>1, <1>2 DEF Waiting, Entering
      <3>4. QED
        BY <3>2, <3>3
    <2>2. QED
      BY <2>1 DEF Waiting
  <1>6. Counted'
    <2>1. edge' \in 0..(Len(manifest.connections) + 1) /\ ~(edge' > 0)
      BY <1>1, <1>4
    <2>2. QED
      BY <1>1, <1>2, <1>3, <1>5, <2>1 DEF Counted
  <1>7. Queued' = Queued /\ Placed' = Placed
    BY <1>1, <1>2 DEF Queued, Placed
  <1>8. QueuedOnceFree'
    BY <1>2, <1>3, <1>5, <1>7 DEF QueuedOnceFree
  <1>9. QED
    BY <1>1, <1>3, <1>6, <1>7, <1>8 DEF OrderInv

\* When nothing is ready any more, every component of the stage is in order: of
\* a set of components left over, one would wait for none of them.
LEMMA OrderIsComplete ==
    ASSUME LoadInv, SessionInv, OrderInv, run.at = "ordering", edge = 0,
           ready = <<>>
    PROVE  ToSet(order) = ToSet(Stage.components) /\ Len(order) = Len(Stage.components)
  <1> DEFINE comps == ToSet(Stage.components)
             group == comps \ ToSet(order)
  <1>1. Counted /\ QueuedOnceFree
    BY DEF OrderInv
  <1>2. /\ Sound(manifest) /\ IsArray(Stage.components)
        /\ IsInjective(Stage.components)
        /\ \A c \in comps : HasComponent(manifest, c)
    BY StageIs
  <1>3. Queued = ToSet(order)
    BY EmptyOrderIs DEF Queued
  <1>4. group = {}
    <2>1. SUFFICES ASSUME group # {} PROVE FALSE
      OBVIOUS
    <2>2. group \subseteq NameSet(manifest.components)
      <3>1. \A c \in comps : c \in NameSet(manifest.components)
        BY <1>2 DEF HasComponent, Named, NameSet
      <3>2. QED
        BY <3>1
    <2>3. PICK c \in group : \A i \in DOMAIN manifest.connections :
              \/ manifest.connections[i].recurrent
              \/ manifest.connections[i].target[1] # c
              \/ manifest.connections[i].source[1] \notin group
      BY <1>2, <2>1, <2>2 DEF Sound, Acyclic
    <2>4. PICK i : i \in Waiting(c)
      BY <1>1, <1>3, <2>3 DEF QueuedOnceFree
    <2>5. /\ i \in DOMAIN manifest.connections
          /\ OrdersStage(manifest, Stage, manifest.connections[i])
          /\ manifest.connections[i].target[1] = c
          /\ manifest.connections[i].source[1] \notin ToSet(order)
      BY <2>4, WaitingIs, EnteringIs
    <2>6. manifest.connections[i].source[1] \in group
      BY <2>5 DEF OrdersStage, StageOwns
    <2>7. QED
      BY <2>3, <2>5, <2>6 DEF OrdersStage
  <1>5. order \in Seq(comps) /\ IsInjective(order)
    BY <1>1 DEF Counted
  <1>6. ToSet(order) \subseteq comps
    BY <1>5 DEF ToSet
  <1>7. ToSet(order) = comps
    BY <1>4, <1>6
  <1>8. Stage.components \in Seq(comps)
    BY <1>2 DEF IsArray
  <1>9. Len(order) = Len(Stage.components)
    BY <1>2, <1>5, <1>7, <1>8, InjectiveLength
  <1>10. QED
    BY <1>7, <1>9

LEMMA EndOrderKeepsOrder ==
    ASSUME LoadInv, SessionInv, OrderInv, EndOrder
    PROVE  OrderInv' /\ run'.at = "components" /\ run'.error = run.error
  <1>1. /\ run.at = "ordering" /\ edge = 0 /\ ready = <<>>
        /\ UNCHANGED package /\ UNCHANGED ordering
    BY DEF EndOrder
  <1>2. ToSet(order) = ToSet(Stage.components) /\ Len(order) = Len(Stage.components)
    BY <1>1, OrderIsComplete
  <1>3. run' = [run EXCEPT !.at = "components", !.next = 1]
    BY <1>2 DEF EndOrder
  <1>4. run'.at = "components" /\ run'.stage = run.stage /\ run'.error = run.error
    BY <1>3, IdleIs DEF SessionInv
  <1>5. Stage' = Stage /\ manifest' = manifest
    BY <1>1, <1>4, StageKept
  <1>6. order' = order
    BY <1>1 DEF ordering
  <1>7. Counted /\ Placed
    BY <1>1 DEF OrderInv
  <1>8. AllInOrder'
    BY <1>2, <1>5, <1>6, <1>7 DEF AllInOrder, Counted
  <1>9. Placed'
    BY <1>5, <1>6, <1>7 DEF Placed
  <1>10. QED
    BY <1>4, <1>8, <1>9 DEF OrderInv

\* The other steps of a pass.
LEMMA RunningKeepsOrder ==
    ASSUME LoadInv, SessionInv, OrderInv,
           \/ SkipComponent \/ BeginComponent \/ ResolvePort \/ CallModel
           \/ StopPass \/ EndComponents \/ PublishGuided \/ StoreState
           \/ EndPass
    PROVE  OrderInv'
  <1>1. CASE SkipComponent
    <2>1. /\ run.at = "components" /\ UNCHANGED package /\ UNCHANGED ordering
          /\ run' = [run EXCEPT !.next = @ + 1, !.skipped = @ \cup {Component.name}]
      BY <1>1 DEF SkipComponent, AtComponent
    <2>2. run'.stage = run.stage /\ run'.at = run.at
      BY <2>1, IdleIs DEF SessionInv
    <2>3. QED
      BY <2>1, <2>2, OrderKept
  <1>2. CASE BeginComponent
    <2>1. /\ run.at = "components" /\ UNCHANGED package /\ UNCHANGED ordering
          /\ run' = [run EXCEPT !.port = 1, !.copied = {}]
      BY <1>2 DEF BeginComponent, AtComponent
    <2>2. run'.stage = run.stage /\ run'.at = run.at
      BY <2>1, IdleIs DEF SessionInv
    <2>3. QED
      BY <2>1, <2>2, OrderKept
  <1>3. CASE ResolvePort
    <2>1. /\ run.at = "components" /\ UNCHANGED package /\ UNCHANGED ordering
      BY <1>3 DEF ResolvePort, AtComponent
    <2>2. \/ run'.stage = run.stage /\ run'.at = run.at
          \/ run'.at = "idle"
      <3>1. CASE \E v : ResolvedWith(v)
        BY <3>1, IdleIs DEF ResolvedWith, SessionInv
      <3>2. CASE FailPass(Reason(Port(run.port)))
        BY <3>2, IdleIs DEF FailPass, SessionInv
      <3>3. QED
        BY <1>3, <3>1, <3>2, ResolvePortIs
    <2>3. CASE run'.stage = run.stage /\ run'.at = run.at
      BY <2>1, <2>3, OrderKept
    <2>4. CASE run'.at = "idle"
      BY <2>4, NothingToOrder
    <2>5. QED
      BY <2>2, <2>3, <2>4
  <1>4. CASE CallModel
    <2>1. /\ run.at = "components" /\ UNCHANGED package /\ UNCHANGED ordering
          /\ run' = [run EXCEPT !.next = @ + 1, !.port = 0]
      BY <1>4, CallModelIs
    <2>2. run'.stage = run.stage /\ run'.at = run.at
      BY <2>1, IdleIs DEF SessionInv
    <2>3. QED
      BY <2>1, <2>2, OrderKept
  <1>5. CASE StopPass
    BY <1>5, IdleIs, NothingToOrder DEF StopPass, FailPass, SessionInv
  <1>6. CASE EndComponents
    BY <1>6, IdleIs, NothingToOrder DEF EndComponents, SessionInv
  <1>7. CASE StoreState
    <2>1. run.at = "states"
      BY <1>7 DEF StoreState
    <2>2. run'.at \in {"states", "idle"}
      BY <1>7, <2>1, IdleIs, StoreStateIs DEF StoredWith, FailPass, SessionInv
    <2>3. run'.at \notin {"sources", "ordering", "components"}
      BY <2>2
    <2>4. QED
      BY ONLY <2>3, NothingToOrder
  <1>8. CASE EndPass
    BY <1>8, IdleIs, NothingToOrder DEF EndPass, SessionInv
  <1>9. CASE PublishGuided
    BY <1>9, PublishGuidedIs, NothingToOrder
  <1>10. QED
    BY <1>1, <1>2, <1>3, <1>4, <1>5, <1>6, <1>7, <1>8, <1>9

LEMMA OrderInit == DataflowInit => OrderInv
  <1>1. SUFFICES ASSUME DataflowInit PROVE OrderInv
    OBVIOUS
  <1>2. run.at = "idle"
    BY <1>1 DEF DataflowInit, Idle
  <1>3. QED
    BY <1>2 DEF OrderInv

LEMMA OrderStep == LoadInv /\ SessionInv /\ OrderInv /\ [Next]_vars => OrderInv'
  <1>1. SUFFICES ASSUME LoadInv, SessionInv, OrderInv, [Next]_vars PROVE OrderInv'
    OBVIOUS
  <1>2. CASE UNCHANGED vars
    BY <1>1, <1>2, OrderKept DEF vars, session
  <1>3. CASE PackageNext /\ UNCHANGED session
    <2>1. phase # "loaded"
      BY <1>3 DEF PackageNext, ParseDocument, CheckPlacement, OpenComponent,
                  FileFails, ResolveAssets, Construct
    <2>2. run'.at = "idle"
      BY <1>1, <1>3, <2>1 DEF session, SessionInv, Idle
    <2>3. QED
      BY <2>2, NothingToOrder
  <1>4. CASE StepStage
    BY <1>1, <1>4, StepStageStartsOrder
  <1>5. CASE Steps
    BY <1>1, <1>5, AddSourceKeepsOrder, EndSourcesKeepsOrder, PopReadyKeepsOrder,
       DropEdgeKeepsOrder, NextPopKeepsOrder, EndOrderKeepsOrder,
       RunningKeepsOrder DEF Steps
  <1>6. CASE Reset \/ (phase = "loaded" /\ \E name \in Stages : ReleaseStage(name))
    <2>1. run.at = "idle" /\ run' = run
      BY <1>6 DEF Reset, ReleaseStage
    <2>2. QED
      BY <2>1, NothingToOrder
  <1>7. QED
    BY <1>1, <1>2, <1>3, <1>4, <1>5, <1>6 DEF Next
-----------------------------------------------------------------------------
(* What the ports of a pass carry *)

\* The component at its turn, and its ports.
LEMMA ComponentIs ==
    ASSUME LoadInv, SessionInv, OrderInv, run.at = "components",
           NEW a \in DOMAIN order
    PROVE  LET c == FindComponent(manifest, order[a])
           IN /\ c.name = order[a] /\ order[a] \in ToSet(Stage.components)
              /\ IsArray(c.inputs)
              /\ \A i, j \in DOMAIN c.inputs :
                    c.inputs[i].name = c.inputs[j].name => i = j
              /\ \E j \in DOMAIN manifest.components : c = manifest.components[j]
              /\ HasComponent(manifest, c.name)
              /\ FindComponent(manifest, c.name) = c
  <1>1. AllInOrder
    BY DEF OrderInv
  <1>2. order[a] \in ToSet(Stage.components)
    BY <1>1 DEF AllInOrder, ToSet
  <1>3. Sound(manifest) /\ HasComponent(manifest, order[a])
    BY <1>2, StageIs
  <1>4. PICK j \in DOMAIN manifest.components :
            /\ manifest.components[j].name = order[a]
            /\ FindComponent(manifest, order[a]) = manifest.components[j]
    BY <1>3, FoundComponent
  <1>5. QED
    BY <1>2, <1>3, <1>4 DEF Sound, ComponentsSound

LEMMA CurrentIs ==
    ASSUME LoadInv, SessionInv, OrderInv, AtComponent
    PROVE  /\ Component.name = order[run.next]
           /\ StageOwns(Stage, Component.name)
           /\ Len(Component.inputs) \in Nat
           /\ DOMAIN Component.inputs = 1..Len(Component.inputs)
           /\ \A i, j \in DOMAIN Component.inputs : Port(i) = Port(j) => i = j
           /\ \A k \in DOMAIN Component.inputs :
                 /\ IsInput(manifest, Port(k))
                 /\ \E i \in DOMAIN manifest.components :
                       /\ Component = manifest.components[i]
                       /\ Component.inputs[k].name \in NameSet(manifest.components[i].inputs)
           /\ \A e : (IsPair(e) /\ IsInput(manifest, e) /\ e[1] = Component.name)
                        => \E k \in DOMAIN Component.inputs : e = Port(k)
  <1>1. run.at = "components" /\ run.next \in DOMAIN order
    BY DEF AtComponent
  <1>2. /\ Component.name = order[run.next]
        /\ order[run.next] \in ToSet(Stage.components)
        /\ IsArray(Component.inputs)
        /\ \A i, j \in DOMAIN Component.inputs :
              Component.inputs[i].name = Component.inputs[j].name => i = j
        /\ \E j \in DOMAIN manifest.components : Component = manifest.components[j]
        /\ HasComponent(manifest, Component.name)
        /\ FindComponent(manifest, Component.name) = Component
    BY <1>1, ComponentIs DEF Component
  <1>3. \A k \in DOMAIN Component.inputs :
            Component.inputs[k].name \in NameSet(Component.inputs)
    BY DEF NameSet
  <1>4. \A k \in DOMAIN Component.inputs : IsInput(manifest, Port(k))
    BY <1>2, <1>3 DEF IsInput, Port
  <1>5. ASSUME NEW e, IsPair(e), IsInput(manifest, e), e[1] = Component.name
        PROVE  \E k \in DOMAIN Component.inputs : e = Port(k)
    <2>1. e[2] \in NameSet(Component.inputs)
      BY <1>2, <1>5 DEF IsInput
    <2>2. PICK k \in DOMAIN Component.inputs : e[2] = Component.inputs[k].name
      BY <2>1 DEF NameSet
    <2>3. e = <<e[1], e[2]>>
      BY <1>5 DEF IsPair
    <2>4. QED
      BY <1>5, <2>2, <2>3 DEF Port
  <1>6. \A i, j \in DOMAIN Component.inputs : Port(i) = Port(j) => i = j
    BY <1>2 DEF Port
  <1>7. QED
    BY <1>2, <1>3, <1>4, <1>5, <1>6, ArrayIs DEF StageOwns

\* No connection but a recurrent one leads from a component to itself.
LEMMA NoSelfLoop ==
    ASSUME Sound(manifest), NEW i \in DOMAIN manifest.connections,
           ~manifest.connections[i].recurrent
    PROVE  manifest.connections[i].source[1] # manifest.connections[i].target[1]
  <1> DEFINE name == manifest.connections[i].target[1]
             group == {name}
  <1>1. IsInput(manifest, manifest.connections[i].target)
    BY DEF Sound, ConnectionsSound
  <1>2. name \in NameSet(manifest.components)
    BY <1>1 DEF IsInput, HasComponent, Named, NameSet
  <1>3. group \in (SUBSET NameSet(manifest.components)) \ {{}}
    BY <1>2
  <1>4. \E c \in group : \A j \in DOMAIN manifest.connections :
            \/ manifest.connections[j].recurrent
            \/ manifest.connections[j].target[1] # c
            \/ manifest.connections[j].source[1] \notin group
    BY <1>3 DEF Sound, Acyclic
  <1>5. QED
    BY <1>4

\* The source of a connection to a component of the stage, when the stage runs
\* it too, comes earlier in the order.
LEMMA SourceIsEarlier ==
    ASSUME LoadInv, SessionInv, OrderInv, AtComponent,
           NEW i \in DOMAIN manifest.connections,
           ~manifest.connections[i].recurrent,
           manifest.connections[i].target[1] = Component.name,
           StageOwns(Stage, manifest.connections[i].source[1])
    PROVE  \E b \in DOMAIN order :
              /\ b < run.next /\ order[b] = manifest.connections[i].source[1]
  <1>1. run.at = "components" /\ run.next \in DOMAIN order
    BY DEF AtComponent
  <1>2. Sound(manifest)
    BY <1>1, StageIs
  <1>3. /\ Component.name = order[run.next]
        /\ StageOwns(Stage, Component.name)
    BY CurrentIs
  <1>4. OrdersStage(manifest, Stage, manifest.connections[i])
    BY <1>2, <1>3, NoSelfLoop DEF OrdersStage
  <1>5. i \in Entering(order[run.next])
    BY <1>3, <1>4, EnteringIs
  <1>6. Placed
    BY <1>1 DEF OrderInv
  <1>7. QED
    BY <1>1, <1>5, <1>6 DEF Placed, Entering

\* What an output of a component that ran carries.
LEMMA SourceHasRun ==
    ASSUME LoadInv, SessionInv, OrderInv, PassInv, AtComponent,
           NEW i \in DOMAIN manifest.connections,
           ~manifest.connections[i].recurrent,
           manifest.connections[i].target[1] = Component.name,
           StageOwns(Stage, manifest.connections[i].source[1]),
           manifest.connections[i].source[1] \notin run.skipped
    PROVE  LET p == manifest.connections[i].source
           IN /\ p \in DOMAIN endpoint_values
              /\ endpoint_values[p].from = p
              /\ endpoint_values[p].pass = run.pass
  <1> DEFINE p == manifest.connections[i].source
  <1>1. run.at = "components" /\ run.next \in DOMAIN order
    BY DEF AtComponent
  <1>2. PICK b \in DOMAIN order : b < run.next /\ order[b] = p[1]
    BY SourceIsEarlier
  <1>3. Sound(manifest)
    BY <1>1, StageIs
  <1>4. IsPair(p) /\ IsOutput(manifest, p)
    BY <1>3 DEF Sound, ConnectionsSound
  <1>5. FindComponent(manifest, order[b]).name = order[b]
    BY <1>1, ComponentIs
  <1>6. p \in Outputs(FindComponent(manifest, order[b]))
    BY <1>2, <1>4, <1>5 DEF Outputs, IsOutput, IsPair
  <1>7. b \in 1..(run.next - 1)
    <2>1. order \in Seq(ToSet(Stage.components))
      BY <1>1 DEF OrderInv, AllInOrder
    <2>2. DOMAIN order = 1..Len(order) /\ Len(order) \in Nat
      BY <2>1
    <2>3. QED
      BY <1>1, <1>2, <2>2
  <1>8. RanInv
    BY <1>1 DEF PassInv
  <1>9. QED
    BY <1>2, <1>6, <1>7, <1>8 DEF RanInv

\* An input of a component has a connection or a declaration, never both.
LEMMA OneSourceOnly ==
    ASSUME LoadInv, SessionInv, OrderInv, AtComponent,
           NEW k \in DOMAIN Component.inputs
    PROVE  FindConnection(Port(k), FALSE) = {} <=> FindDeclaredInput(Port(k)) # {}
  <1>1. Sound(manifest)
    BY StageIs DEF AtComponent
  <1>2. PICK i \in DOMAIN manifest.components :
            /\ Component = manifest.components[i]
            /\ Component.inputs[k].name \in NameSet(manifest.components[i].inputs)
    BY CurrentIs
  <1>3. Port(k) = <<manifest.components[i].name, Component.inputs[k].name>>
    BY <1>2 DEF Port
  <1>4. Port(k) \in Producers(manifest, FALSE) <=> Port(k) \notin DeclaredPorts(manifest)
    BY <1>1, <1>2, <1>3 DEF Sound, OneInitialSource
  <1>5. Port(k) \in Producers(manifest, FALSE) <=> FindConnection(Port(k), FALSE) # {}
    BY DEF Producers, FindConnection
  <1>6. Port(k) \in DeclaredPorts(manifest) <=> FindDeclaredInput(Port(k)) # {}
    BY DEF DeclaredPorts, FindDeclaredInput
  <1>7. QED
    BY <1>4, <1>5, <1>6

LEMMA OrderingKeepsPass ==
    ASSUME run'.at \in {"sources", "ordering"}, run'.port = 0
    PROVE  PassInv'
  BY DEF PassInv

LEMMA NothingCarried ==
    ASSUME run'.at \notin {"sources", "ordering", "components"}
    PROVE  PassInv'
  BY DEF PassInv

\* The component at the turn of a step that does not end it.
LEMMA ComponentKept ==
    ASSUME UNCHANGED package, order' = order, run'.next = run.next
    PROVE  /\ Component' = Component /\ \A k : Port(k)' = Port(k)
           /\ manifest' = manifest
  <1>1. manifest' = manifest
    BY DEF package
  <1>2. Component' = Component
    BY <1>1 DEF Component
  <1>3. QED
    BY <1>1, <1>2 DEF Port

LEMMA BeginOrder ==
    ASSUME LoadInv, SessionInv, OrderInv, PassInv, EndOrder
    PROVE  PassInv'
  <1>1. run.at = "ordering" /\ edge = 0 /\ ready = <<>> /\ order' = order
    BY DEF EndOrder, ordering
  <1>2. Len(order) = Len(Stage.components)
    BY <1>1, OrderIsComplete
  <1>3. run' = [run EXCEPT !.at = "components", !.next = 1]
    BY <1>2 DEF EndOrder
  <1>4. run'.at = "components" /\ run'.next = 1 /\ run'.port = run.port
    BY <1>3, IdleIs DEF SessionInv
  <1>5. run.port = 0
    BY <1>1 DEF PassInv
  <1>6. Len(order) \in Nat
    <2>1. IsArray(Stage.components)
      BY <1>1, StageIs
    <2>2. QED
      BY <1>2, <2>1, ArrayIs
  <1>7. run'.next \in 1..(Len(order') + 1)
    BY <1>1, <1>4, <1>6
  <1>8. RanInv'
    <2>1. 1..(run'.next - 1) = {}
      BY <1>4
    <2>2. QED
      BY <2>1 DEF RanInv
  <1>9. run'.port = 0 /\ ~(run'.port > 0)
    BY <1>4, <1>5
  <1>10. QED
    BY <1>4, <1>7, <1>8, <1>9 DEF PassInv

LEMMA OrderLength ==
    ASSUME OrderInv, run.at = "components"
    PROVE  Len(order) \in Nat /\ DOMAIN order = 1..Len(order)
  <1>1. order \in Seq(ToSet(Stage.components))
    BY DEF OrderInv, AllInOrder
  <1>2. QED
    BY <1>1

LEMMA SkipKeepsPass ==
    ASSUME LoadInv, SessionInv, OrderInv, PassInv, SkipComponent
    PROVE  PassInv'
  <1>1. /\ run.at = "components" /\ run.next \in DOMAIN order /\ run.port = 0
        /\ run' = [run EXCEPT !.next = @ + 1, !.skipped = @ \cup {Component.name}]
        /\ UNCHANGED package /\ order' = order /\ endpoint_values' = endpoint_values
    BY DEF SkipComponent, AtComponent, values, ordering
  <1>2. /\ run'.at = "components" /\ run'.next = run.next + 1 /\ run'.port = 0
        /\ run'.skipped = run.skipped \cup {Component.name}
        /\ run'.pass = run.pass
    BY <1>1, IdleIs DEF SessionInv
  <1>3. Len(order) \in Nat /\ DOMAIN order = 1..Len(order)
    BY <1>1, OrderLength
  <1>4. run'.next \in 1..(Len(order') + 1) /\ ~(run'.port > 0)
    BY <1>1, <1>2, <1>3
  <1>5. RanInv'
    <2>1. Component.name = order[run.next]
      BY CurrentIs DEF SkipComponent
    <2>2. manifest' = manifest
      BY <1>1 DEF package
    <2>3. RanInv
      BY <1>1 DEF PassInv
    <2>4. ASSUME NEW a \in 1..(run'.next - 1), order[a] \notin run'.skipped
          PROVE  a \in 1..(run.next - 1) /\ order[a] \notin run.skipped
      <3>1. a # run.next
        BY <1>2, <2>1, <2>4
      <3>2. QED
        BY <1>1, <1>2, <1>3, <2>4, <3>1
    <2>5. QED
      BY <1>1, <1>2, <2>2, <2>3, <2>4 DEF RanInv
  <1>6. QED
    BY <1>2, <1>4, <1>5 DEF PassInv

LEMMA BeginKeepsPass ==
    ASSUME LoadInv, SessionInv, OrderInv, PassInv, BeginComponent
    PROVE  PassInv'
  <1>1. /\ run.at = "components" /\ run.next \in DOMAIN order /\ run.port = 0
        /\ run' = [run EXCEPT !.port = 1, !.copied = {}]
        /\ UNCHANGED package /\ order' = order /\ endpoint_values' = endpoint_values
    BY DEF BeginComponent, AtComponent, values, ordering
  <1>2. /\ run'.at = "components" /\ run'.next = run.next /\ run'.port = 1
        /\ run'.skipped = run.skipped /\ run'.copied = {} /\ run'.pass = run.pass
    BY <1>1, IdleIs DEF SessionInv
  <1>3. /\ Component' = Component /\ manifest' = manifest
    BY <1>1, <1>2, ComponentKept
  <1>4. RanInv /\ run.next \in 1..(Len(order) + 1)
    BY <1>1 DEF PassInv
  <1>5. RanInv'
    BY <1>1, <1>2, <1>3, <1>4 DEF RanInv
  <1>6. ResolvedInv'
    <2>1. Len(Component.inputs) \in Nat
      BY CurrentIs DEF BeginComponent
    <2>2. run'.port <= Len(Component'.inputs) + 1 /\ 1..(run'.port - 1) = {}
      BY <1>2, <1>3, <2>1
    <2>3. QED
      BY <1>2, <2>2 DEF ResolvedInv
  <1>7. run.next # Len(order) + 1
    <2>1. Len(order) \in Nat /\ DOMAIN order = 1..Len(order)
      BY <1>1, OrderLength
    <2>2. QED
      BY <1>1, <2>1
  <1>8. QED
    BY <1>1, <1>2, <1>4, <1>5, <1>6, <1>7 DEF PassInv

\* A model leaves its outputs; every component up to it has now run.
LEMMA CallKeepsPass ==
    ASSUME LoadInv, SessionInv, OrderInv, PassInv, CallModel
    PROVE  PassInv'
  <1> DEFINE made == Made(Component)
  <1>1. /\ run.at = "components" /\ run.next \in DOMAIN order
        /\ run' = [run EXCEPT !.next = @ + 1, !.port = 0]
        /\ UNCHANGED package /\ order' = order
        /\ endpoint_values' = Over(made, endpoint_values)
    BY CallModelIs DEF ordering
  <1>2. /\ run'.at = "components" /\ run'.next = run.next + 1 /\ run'.port = 0
        /\ run'.skipped = run.skipped /\ run'.pass = run.pass
    BY <1>1, IdleIs DEF SessionInv
  <1>3. Len(order) \in Nat /\ DOMAIN order = 1..Len(order)
    BY <1>1, OrderLength
  <1>4. run'.next \in 1..(Len(order') + 1) /\ ~(run'.port > 0)
    BY <1>1, <1>2, <1>3
  <1>5. manifest' = manifest
    BY <1>1 DEF package
  <1>6. /\ DOMAIN made = Outputs(Component)
        /\ \A p \in DOMAIN made : made[p].from = p /\ made[p].pass = run.pass
    BY DEF Made
  <1> HIDE DEF made
  <1>7. /\ DOMAIN endpoint_values' = DOMAIN made \cup DOMAIN endpoint_values
        /\ \A p \in DOMAIN made : endpoint_values'[p] = made[p]
        /\ \A p \in DOMAIN endpoint_values :
              p \notin DOMAIN made => endpoint_values'[p] = endpoint_values[p]
    BY <1>1 DEF Over
  <1>8. RanInv'
    <2>1. SUFFICES ASSUME NEW a \in 1..(run'.next - 1), order[a] \notin run.skipped,
                          NEW p \in Outputs(FindComponent(manifest, order[a]))
                   PROVE  /\ p \in DOMAIN endpoint_values'
                          /\ endpoint_values'[p].from = p
                          /\ endpoint_values'[p].pass = run.pass
      BY <1>1, <1>2, <1>5 DEF RanInv
    <2>2. CASE a = run.next
      <3>1. p \in DOMAIN made
        BY <1>6, <2>2 DEF Component
      <3>2. QED
        BY <1>6, <1>7, <3>1
    <2>3. CASE a # run.next
      <3>1. a \in 1..(run.next - 1)
        BY <1>1, <1>2, <1>3, <2>3
      <3>2. RanInv
        BY <1>1 DEF PassInv
      <3>3. /\ p \in DOMAIN endpoint_values
            /\ endpoint_values[p].from = p
            /\ endpoint_values[p].pass = run.pass
        BY <2>1, <3>1, <3>2 DEF RanInv
      <3>4. QED
        BY <1>6, <1>7, <3>3
    <2>4. QED
      BY <2>2, <2>3
  <1>9. QED
    BY <1>2, <1>4, <1>8 DEF PassInv

\* What an input found stays found while its sources stay as they are.
LEMMA TakenKept ==
    ASSUME manifest' = manifest, state_values' = state_values,
           external_values' = external_values, run'.overrides = run.overrides,
           NEW port, TakenFrom(port),
           port \in DOMAIN endpoint_values', endpoint_values'[port] = endpoint_values[port],
           \A i \in FindConnection(port, FALSE) :
              manifest.connections[i].source \in DOMAIN endpoint_values =>
                /\ manifest.connections[i].source \in DOMAIN endpoint_values'
                /\ endpoint_values'[manifest.connections[i].source]
                     = endpoint_values[manifest.connections[i].source]
    PROVE  TakenFrom(port)'
  <1>1. /\ FindInputState(port)' = FindInputState(port)
        /\ FindConnection(port, FALSE)' = FindConnection(port, FALSE)
        /\ \A c : Forwards(c)' = Forwards(c)
    BY DEF FindInputState, FindConnection, Forwards
  <1>2. /\ (port \in run.overrides => endpoint_values[port].from = Host)'
        /\ Host' = Host
    BY DEF TakenFrom, Host
  <1> DEFINE state == FindInputState(port) \cap DOMAIN state_values
  <1>3. /\ state' = state
        /\ port \notin run.overrides =>
             /\ \A s \in state : endpoint_values'[port] = state_values'[s]
             /\ state = {} /\ port \in DOMAIN external_values' =>
                  endpoint_values'[port] = external_values'[port]
    BY <1>1 DEF TakenFrom
  <1>4. ASSUME port \notin run.overrides, state = {},
               NEW i \in FindConnection(port, FALSE)
        PROVE  LET c == manifest.connections[i]
                   v == endpoint_values'[port]
                   w == endpoint_values'[c.source]
               IN /\ c.source \in DOMAIN endpoint_values'
                  /\ Carries(c) => v.from = w.from /\ v.pass = w.pass
                  /\ Forwards(c) => SamePlace(v, w)
    <2>1. LET c == manifest.connections[i]
              v == endpoint_values[port]
              w == endpoint_values[c.source]
          IN /\ c.source \in DOMAIN endpoint_values
             /\ Carries(c) => v.from = w.from /\ v.pass = w.pass
             /\ Forwards(c) => SamePlace(v, w)
      BY <1>4 DEF TakenFrom
    <2>2. QED
      BY <2>1
  <1> HIDE DEF state
  <1>5. /\ \A c : Carries(c)' = Carries(c)
        /\ \A v, w : SamePlace(v, w)' = SamePlace(v, w)
    BY DEF Carries, SamePlace
  <1>6. ASSUME (port \notin run.overrides)', state' = {}
        PROVE  (\A i \in FindConnection(port, FALSE) :
                    LET c == manifest.connections[i]
                        w == endpoint_values[c.source]
                    IN /\ c.source \in DOMAIN endpoint_values
                       /\ Carries(c) => /\ endpoint_values[port].from = w.from
                                        /\ endpoint_values[port].pass = w.pass
                       /\ Forwards(c) => SamePlace(endpoint_values[port], w))'
    BY <1>1, <1>3, <1>4, <1>5, <1>6
  <1>7. QED
    BY <1>2, <1>3, <1>6 DEF TakenFrom, state

\* What ResolveInput found for an input is what TakenFrom says of it.
LEMMA FoundIsTaken ==
    ASSUME LoadInv, SessionInv, OrderInv, AtComponent,
           NEW k \in DOMAIN Component.inputs, NEW v, ResolvesTo(Port(k), v)
    PROVE  /\ Port(k) \in run.overrides => v.from = Host
           /\ Port(k) \notin run.overrides =>
                LET state == FindInputState(Port(k)) \cap DOMAIN state_values
                IN /\ \A s \in state : v = state_values[s]
                   /\ state = {} => \A i \in FindConnection(Port(k), FALSE) :
                        LET c == manifest.connections[i]
                            w == endpoint_values[c.source]
                        IN /\ c.source \in DOMAIN endpoint_values
                           /\ Carries(c) => v.from = w.from /\ v.pass = w.pass
                           /\ Forwards(c) => SamePlace(v, w)
                   /\ state = {} /\ Port(k) \in DOMAIN external_values =>
                        v = external_values[Port(k)]
  <1> DEFINE port == Port(k)
             state == FindInputState(port) \cap DOMAIN state_values
  <1>1. phase = "loaded" /\ Sound(manifest)
    BY StageIs DEF AtComponent
  <1>2. AllTensors(endpoint_values) /\ AllTensors(external_values)
    BY DEF SessionInv
  <1>3. port \in run.overrides => v.from = Host
    BY HostTensorIs DEF ResolvesTo
  <1>4. ASSUME port \notin run.overrides, state = {},
               NEW i \in FindConnection(port, FALSE)
        PROVE  LET c == manifest.connections[i]
                   w == endpoint_values[c.source]
               IN /\ c.source \in DOMAIN endpoint_values
                  /\ Carries(c) => v.from = w.from /\ v.pass = w.pass
                  /\ Forwards(c) => SamePlace(v, w)
    <2> DEFINE c == manifest.connections[i]
               w == endpoint_values[c.source]
    <2>1. /\ c.source \in DOMAIN endpoint_values
          /\ v \in ApplyConnection(c, w, {})
      BY <1>4 DEF ResolvesTo
    <2>2. IsTensor(w) /\ c.target \notin run.overrides
      BY <1>2, <1>4, <2>1 DEF AllTensors, FindConnection
    <2>3. Applied(c, w, v)
      BY <2>1, <2>2, AppliedIs
    <2>4. QED
      BY <2>1, <2>2, <2>3 DEF Applied
  <1>5. ASSUME port \notin run.overrides, state = {}, port \in DOMAIN external_values
        PROVE  v = external_values[port]
    <2>1. port \in ExternalPorts
      BY <1>1, <1>5 DEF SessionInv
    <2>2. PICK j \in DOMAIN manifest.inputs :
              manifest.inputs[j].kind = "external" /\ manifest.inputs[j].port = port
      BY <2>1 DEF ExternalPorts
    <2>3. FindDeclaredInput(port) = {j}
      BY <1>1, <2>2 DEF FindDeclaredInput, Sound, InputsSound
    <2>4. FindConnection(port, FALSE) = {}
      BY <2>3, OneSourceOnly
    <2>5. v \in DeclaredValue(manifest.inputs[j])
      BY <1>5, <2>3, <2>4 DEF ResolvesTo
    <2>6. QED
      BY <1>1, <1>2, <1>5, <2>2, <2>5, DeclaredIs DEF Sound
  <1>6. port \notin run.overrides => \A s \in state : v = state_values[s]
    BY DEF ResolvesTo
  <1>7. QED
    BY <1>3, <1>4, <1>5, <1>6

\* A value that is looked up is the one the port was resolved to.
LEMMA KnownIsTaken ==
    ASSUME NEW port, TakenFrom(port), port \notin run.overrides,
           NEW w \in KnownValue(port)
    PROVE  w = endpoint_values[port]
  <1> DEFINE state == Known(state_values, FindInputState(port))
             external == Known(external_values, {port})
             direct == Known(endpoint_values, {port})
  <1>1. port \in DOMAIN endpoint_values
    BY DEF TakenFrom
  <1>2. direct = {endpoint_values[port]}
    BY <1>1 DEF Known
  <1>3. CASE state # {}
    <2>1. w \in state
      BY <1>3 DEF KnownValue
    <2>2. PICK s \in FindInputState(port) \cap DOMAIN state_values : w = state_values[s]
      BY <2>1, KnownIs
    <2>3. QED
      BY <2>2 DEF TakenFrom
  <1>4. CASE state = {} /\ external # {}
    <2>1. w \in external
      BY <1>4 DEF KnownValue
    <2>2. port \in DOMAIN external_values /\ w = external_values[port]
      BY <2>1 DEF Known
    <2>3. FindInputState(port) \cap DOMAIN state_values = {}
      BY <1>4 DEF Known
    <2>4. QED
      BY <2>2, <2>3 DEF TakenFrom
  <1>5. CASE state = {} /\ external = {}
    <2>1. w \in direct
      BY <1>2, <1>5 DEF KnownValue
    <2>2. QED
      BY <1>2, <2>1
  <1>6. QED
    BY <1>3, <1>4, <1>5

\* An input generated from one that has been resolved is as old as that one.
LEMMA GeneratedFollows ==
    ASSUME LoadInv, SessionInv, OrderInv, AtComponent,
           NEW k \in DOMAIN Component.inputs, NEW v, ResolvesTo(Port(k), v),
           NEW source, TakenFrom(source), {Port(k), source} \cap run.overrides = {},
           FindInputState(Port(k)) \cap DOMAIN state_values = {},
           NEW j \in FindDeclaredInput(Port(k)),
           source \in GeneratorSources(manifest.inputs[j])
    PROVE  v.pass = endpoint_values[source].pass
  <1>1. Sound(manifest)
    BY StageIs DEF AtComponent
  <1>2. AllTensors(external_values) /\ AllTensors(endpoint_values)
    BY DEF SessionInv
  <1>3. j \in DOMAIN manifest.inputs /\ FindDeclaredInput(Port(k)) = {j}
    BY <1>1 DEF FindDeclaredInput, Sound, InputsSound
  <1>4. FindConnection(Port(k), FALSE) = {}
    BY <1>3, OneSourceOnly
  <1>5. v \in DeclaredValue(manifest.inputs[j])
    BY <1>3, <1>4 DEF ResolvesTo
  <1>6. manifest.inputs[j].kind = "generated"
    BY <1>1, <1>3 DEF Sound, InputsSound
  <1>7. v \in Generate(manifest.inputs[j])
    BY <1>1, <1>2, <1>3, <1>5, <1>6, DeclaredIs DEF Sound
  <1>8. PICK p \in GeneratorSources(manifest.inputs[j]) :
            \E w \in KnownValue(p) : v = HostTensor(w.pass)
    BY <1>7, GeneratedIs
  <1>9. p = source
    BY <1>1, <1>3, <1>8 DEF Sound, InputsSound
  <1>10. PICK w \in KnownValue(source) : v = HostTensor(w.pass)
    BY <1>8, <1>9
  <1>11. w = endpoint_values[source]
    BY <1>10, KnownIsTaken
  <1>12. QED
    BY <1>10, <1>11, HostTensorIs

LEMMA ResolveKeepsPass ==
    ASSUME LoadInv, SessionInv, OrderInv, PassInv, ResolvePort
    PROVE  PassInv'
  <1>1. /\ AtComponent /\ run.at = "components" /\ run.next \in DOMAIN order
        /\ run.port \in DOMAIN Component.inputs
        /\ UNCHANGED package /\ order' = order
        /\ external_values' = external_values /\ state_values' = state_values
    BY DEF ResolvePort, AtComponent, ordering
  <1>2. CASE FailPass(Reason(Port(run.port)))
    <2>1. run'.at = "idle"
      BY <1>2, IdleIs DEF FailPass, SessionInv
    <2>2. QED
      BY <2>1, NothingCarried
  <1>3. ASSUME NEW v, ResolvedWith(v)
        PROVE  PassInv'
    <2> DEFINE direct == BindsDirectly(v, opened[Component.name].input_device)
    <2>1. PICK n : n = run.port
      OBVIOUS
    <2>2. PICK p : p = Port(n)
      OBVIOUS
    <2>3. /\ run'.at = "components" /\ run'.next = run.next
          /\ run'.port = n + 1 /\ run'.skipped = run.skipped
          /\ run'.pass = run.pass /\ run'.overrides = run.overrides
          /\ run'.copied = IF direct THEN run.copied ELSE run.copied \cup {p}
      <3>1. run' = [run EXCEPT !.port = @ + 1,
                               !.copied = IF direct THEN @ ELSE @ \cup {Port(run.port)}]
        BY <1>3 DEF ResolvedWith
      <3> HIDE DEF direct
      <3>2. DOMAIN run = DOMAIN Idle
        BY DEF SessionInv
      <3>3. QED
        BY <1>1, <2>1, <2>2, <3>1, <3>2, IdleIs
    <2>4. /\ Component' = Component /\ (\A k : Port(k)' = Port(k))
          /\ manifest' = manifest
      BY <1>1, <2>3, ComponentKept
    <2>5. opened' = opened
      BY <1>1 DEF package
    <2>6. ResolvesTo(p, v)
      <3>1. Sound(manifest)
        BY <1>1, StageIs
      <3>2. /\ AllTensors(external_values) /\ AllTensors(endpoint_values)
            /\ AllTensors(state_values)
        BY DEF SessionInv
      <3>3. v \in ResolveInput(p)
        BY <1>3, <2>1, <2>2 DEF ResolvedWith
      <3>4. QED
        BY <3>1, <3>2, <3>3, ResolvedIs
    <2>7. /\ DOMAIN endpoint_values' = DOMAIN endpoint_values \cup {p}
          /\ endpoint_values'[p] = v
          /\ \A q \in DOMAIN endpoint_values :
                q # p => endpoint_values'[q] = endpoint_values[q]
      <3>1. endpoint_values' = Put(endpoint_values, p, v)
        BY <1>3, <2>1, <2>2 DEF ResolvedWith
      <3>2. QED
        BY <3>1 DEF Put
    <2>8. /\ Component.name = order[run.next]
          /\ Len(Component.inputs) \in Nat
          /\ DOMAIN Component.inputs = 1..Len(Component.inputs)
          /\ \A i, j \in DOMAIN Component.inputs : Port(i) = Port(j) => i = j
      BY <1>1, CurrentIs
    <2>9. n \in Nat /\ n \in 1..Len(Component.inputs)
      BY <1>1, <2>1, <2>8
    <2>10. /\ RanInv /\ ResolvedInv /\ run.next \in 1..(Len(order) + 1)
           /\ run.next # Len(order) + 1
      <3>1. Len(order) \in Nat /\ DOMAIN order = 1..Len(order)
        BY <1>1, OrderLength
      <3>2. run.port > 0
        BY <2>1, <2>9
      <3>3. QED
        BY <1>1, <3>1, <3>2 DEF PassInv
    \* The components before keep their outputs.
    <2>11. RanInv'
      <3>1. SUFFICES ASSUME NEW a \in 1..(run.next - 1), order[a] \notin run.skipped,
                            NEW q \in Outputs(FindComponent(manifest, order[a]))
                     PROVE  /\ q \in DOMAIN endpoint_values'
                            /\ endpoint_values'[q].from = q
                            /\ endpoint_values'[q].pass = run.pass
        BY <1>1, <2>3, <2>4 DEF RanInv
      <3>2. /\ q \in DOMAIN endpoint_values
            /\ endpoint_values[q].from = q /\ endpoint_values[q].pass = run.pass
        BY <2>10, <3>1 DEF RanInv
      <3>3. a \in DOMAIN order /\ a # run.next
        <4>1. Len(order) \in Nat /\ DOMAIN order = 1..Len(order)
          BY <1>1, OrderLength
        <4>2. QED
          BY <1>1, <4>1
      <3>4. q[1] = order[a]
        <4>1. FindComponent(manifest, order[a]).name = order[a]
          BY <1>1, <3>3, ComponentIs
        <4>2. QED
          BY <4>1 DEF Outputs
      <3>5. p[1] = order[run.next]
        BY <2>2, <2>8 DEF Port
      <3>6. order[a] # order[run.next]
        BY <1>1, <3>3 DEF OrderInv, AllInOrder, IsInjective
      <3>7. q # p
        BY <3>4, <3>5, <3>6
      <3>8. QED
        BY <2>7, <3>2, <3>7
    \* No connection to the component comes from one of its own ports.
    <2>12. ASSUME NEW k \in DOMAIN Component.inputs, NEW i \in FindConnection(Port(k), FALSE)
           PROVE  manifest.connections[i].source # p
      <3>1. /\ i \in DOMAIN manifest.connections
            /\ manifest.connections[i].target = Port(k)
            /\ manifest.connections[i].recurrent = FALSE
        BY <2>12 DEF FindConnection
      <3>2. manifest.connections[i].source[1] # manifest.connections[i].target[1]
        BY <1>1, <3>1, StageIs, NoSelfLoop
      <3>3. Port(k)[1] = p[1]
        BY <2>2 DEF Port
      <3>4. QED
        BY <3>1, <3>2, <3>3
    \* The inputs resolved before keep what they carry.
    <2>13. ASSUME NEW k \in 1..(n - 1), NEW q, q = Port(k)
           PROVE  /\ q # p /\ q \in DOMAIN endpoint_values
                  /\ endpoint_values'[q] = endpoint_values[q]
                  /\ TakenFrom(q) /\ TakenFrom(q)'
      <3>1. k \in DOMAIN Component.inputs /\ n \in DOMAIN Component.inputs /\ k # n
        BY <2>8, <2>9
      <3>2. q # p
        BY <2>2, <2>8, <2>13, <3>1
      <3>3. TakenFrom(q)
        BY <2>1, <2>10, <2>13 DEF ResolvedInv
      <3>4. q \in DOMAIN endpoint_values
        BY <3>3 DEF TakenFrom
      <3>5. q \in DOMAIN endpoint_values' /\ endpoint_values'[q] = endpoint_values[q]
        BY <2>7, <3>2, <3>4
      <3>6. \A i \in FindConnection(q, FALSE) :
              manifest.connections[i].source \in DOMAIN endpoint_values =>
                /\ manifest.connections[i].source \in DOMAIN endpoint_values'
                /\ endpoint_values'[manifest.connections[i].source]
                     = endpoint_values[manifest.connections[i].source]
        BY <2>7, <2>12, <2>13, <3>1
      <3>7. TakenFrom(q)'
        BY <1>1, <2>3, <2>4, <3>3, <3>5, <3>6, TakenKept
      <3>8. QED
        BY <3>2, <3>3, <3>4, <3>5, <3>7
    \* The input just resolved carries what was found.
    <2>14. TakenFrom(p)'
      <3>1. n \in DOMAIN Component.inputs
        BY <2>8, <2>9
      <3>2. /\ p \in run.overrides => v.from = Host
            /\ p \notin run.overrides =>
                LET state == FindInputState(p) \cap DOMAIN state_values
                IN /\ \A s \in state : v = state_values[s]
                   /\ state = {} => \A i \in FindConnection(p, FALSE) :
                        LET c == manifest.connections[i]
                            w == endpoint_values[c.source]
                        IN /\ c.source \in DOMAIN endpoint_values
                           /\ Carries(c) => v.from = w.from /\ v.pass = w.pass
                           /\ Forwards(c) => SamePlace(v, w)
                   /\ state = {} /\ p \in DOMAIN external_values =>
                        v = external_values[p]
        BY <1>1, <2>2, <2>6, <3>1, FoundIsTaken
      <3>3. /\ FindInputState(p)' = FindInputState(p)
            /\ FindConnection(p, FALSE)' = FindConnection(p, FALSE)
            /\ \A c : Forwards(c)' = Forwards(c)
        BY <2>4 DEF FindInputState, FindConnection, Forwards
      <3>4. \A i \in FindConnection(p, FALSE) :
              manifest.connections[i].source \in DOMAIN endpoint_values =>
                /\ manifest.connections[i].source \in DOMAIN endpoint_values'
                /\ endpoint_values'[manifest.connections[i].source]
                     = endpoint_values[manifest.connections[i].source]
        BY <2>2, <2>7, <2>12, <3>1
      <3>5. p \in DOMAIN endpoint_values' /\ endpoint_values'[p] = v
        BY <2>7
      <3>6. ASSUME p \notin run.overrides,
                   FindInputState(p) \cap DOMAIN state_values = {},
                   NEW i \in FindConnection(p, FALSE)
            PROVE  LET c == manifest.connections[i]
                       w == endpoint_values'[c.source]
                   IN /\ c.source \in DOMAIN endpoint_values'
                      /\ Carries(c) => v.from = w.from /\ v.pass = w.pass
                      /\ Forwards(c) => SamePlace(v, w)
        BY <3>2, <3>4, <3>6
      <3>7. p \notin run.overrides =>
              LET state == FindInputState(p) \cap DOMAIN state_values
              IN /\ \A s \in state : v = state_values[s]
                 /\ state = {} /\ p \in DOMAIN external_values =>
                      v = external_values[p]
        BY <3>2
      <3>8. p \in run.overrides => v.from = Host
        BY <3>2
      <3>9. QED
        BY <1>1, <2>3, <2>4, <3>3, <3>5, <3>6, <3>7, <3>8 DEF TakenFrom
    \* A generated input is as old as its source.
    <2>15. ASSUME NEW k \in 1..n, NEW i \in 1..(k - 1), NEW q, q = Port(k),
                  NEW s, s = Port(i)
           PROVE  GeneratedFrom(s, q)'
      <3>1. i \in 1..(n - 1)
        BY <2>9
      <3>2. /\ s # p /\ endpoint_values'[s] = endpoint_values[s] /\ TakenFrom(s)
        BY <2>13, <2>15, <3>1
      <3>3. /\ FindInputState(q)' = FindInputState(q)
            /\ FindDeclaredInput(q)' = FindDeclaredInput(q)
        BY <2>4 DEF FindInputState, FindDeclaredInput
      <3>4. SUFFICES ASSUME {q, s} \cap run.overrides = {},
                            FindInputState(q) \cap DOMAIN state_values = {},
                            NEW j \in FindDeclaredInput(q),
                            s \in GeneratorSources(manifest.inputs[j])
                     PROVE  endpoint_values'[q].pass = endpoint_values[s].pass
        BY <1>1, <2>3, <2>4, <3>2, <3>3 DEF GeneratedFrom
      <3>5. CASE k = n
        <4>1. n \in DOMAIN Component.inputs /\ q = p
          BY <2>2, <2>8, <2>9, <2>15, <3>5
        <4>2. v.pass = endpoint_values[s].pass
          BY <1>1, <2>2, <2>6, <3>2, <3>4, <4>1, GeneratedFollows
        <4>3. QED
          BY <2>7, <4>1, <4>2
      <3>6. CASE k # n
        <4>1. k \in 1..(n - 1)
          BY <2>9, <3>6
        <4>2. endpoint_values'[q] = endpoint_values[q]
          BY <2>13, <2>15, <4>1
        <4>3. GeneratedFrom(s, q)
          BY <2>1, <2>10, <2>15, <4>1 DEF ResolvedInv
        <4>4. endpoint_values[q].pass = endpoint_values[s].pass
          BY <3>4, <4>3 DEF GeneratedFrom
        <4>5. QED
          BY <4>2, <4>4
      <3>7. QED
        BY <3>5, <3>6
    \* What is copied before it is bound.
    <2>16. p \notin run.copied
      <3>1. run.copied \subseteq {Port(k) : k \in 1..(n - 1)}
        BY <2>1, <2>10 DEF ResolvedInv
      <3>2. QED
        BY <2>13, <3>1
    <2>17. ASSUME NEW k \in 1..n, NEW q, q = Port(k)
           PROVE  q \notin run'.copied
                    <=> BindsDirectly(endpoint_values'[q],
                                      opened[Component.name].input_device)
      <3>1. CASE k = n
        BY <2>2, <2>3, <2>7, <2>16, <2>17, <3>1
      <3>2. CASE k # n
        <4>1. k \in 1..(n - 1)
          BY <2>9, <3>2
        <4>2. q # p /\ endpoint_values'[q] = endpoint_values[q]
          BY <2>13, <2>17, <4>1
        <4>3. q \notin run.copied
                <=> BindsDirectly(endpoint_values[q], opened[Component.name].input_device)
          BY <2>1, <2>10, <2>17, <4>1 DEF ResolvedInv
        <4>4. q \in run'.copied <=> q \in run.copied
          BY <2>3, <4>2
        <4>5. QED
          BY <4>2, <4>3, <4>4
      <3>3. QED
        BY <3>1, <3>2
    <2>18. ResolvedInv'
      <3>1. run'.port <= Len(Component.inputs) + 1 /\ run'.port - 1 = n
        BY <2>3, <2>8, <2>9
      <3>2. run'.copied \subseteq {Port(k) : k \in 1..n}
        <4>1. run.copied \subseteq {Port(k) : k \in 1..(n - 1)}
          BY <2>1, <2>10 DEF ResolvedInv
        <4>2. 1..(n - 1) \subseteq 1..n /\ n \in 1..n
          BY <2>9
        <4>3. run'.copied \subseteq run.copied \cup {p}
          BY <2>3
        <4>4. QED
          BY <2>2, <4>1, <4>2, <4>3
      <3>3. ASSUME NEW k \in 1..n
            PROVE  /\ TakenFrom(Port(k))'
                   /\ \A i \in 1..(k - 1) : GeneratedFrom(Port(i), Port(k))'
                   /\ Port(k)' \notin run'.copied
                        <=> BindsDirectly(endpoint_values'[Port(k)'],
                                          opened'[Component'.name].input_device)
        <4>1. PICK q : q = Port(k)
          OBVIOUS
        <4>2. Port(k)' = q
          BY <2>4, <4>1
        <4>3. TakenFrom(q)'
          <5>1. CASE k = n
            BY <2>2, <2>14, <4>1, <5>1
          <5>2. CASE k # n
            <6>1. k \in 1..(n - 1)
              BY <2>9, <5>2
            <6>2. QED
              BY <2>13, <4>1, <6>1
          <5>3. QED
            BY <5>1, <5>2
        <4>4. TakenFrom(Port(k))'
          BY <4>2, <4>3 DEF TakenFrom
        <4>5. ASSUME NEW i \in 1..(k - 1) PROVE GeneratedFrom(Port(i), Port(k))'
          <5>1. PICK s : s = Port(i)
            OBVIOUS
          <5>2. Port(i)' = s
            BY <2>4, <5>1
          <5>3. GeneratedFrom(s, q)'
            BY <2>15, <4>1, <5>1
          <5>4. QED
            BY <4>2, <5>2, <5>3 DEF GeneratedFrom
        <4>6. QED
          BY <2>4, <2>5, <2>17, <4>1, <4>2, <4>4, <4>5
      <3>4. QED
        BY <2>4, <3>1, <3>2, <3>3 DEF ResolvedInv
    <2>19. QED
      BY <1>1, <2>3, <2>10, <2>11, <2>18 DEF PassInv
  <1>4. QED
    BY <1>2, <1>3, ResolvePortIs

LEMMA PassKept ==
    ASSUME PassInv, UNCHANGED vars
    PROVE  PassInv'
  <1>1. /\ UNCHANGED package /\ run' = run /\ order' = order
        /\ endpoint_values' = endpoint_values /\ state_values' = state_values
        /\ external_values' = external_values
    BY DEF vars, session, values, ordering
  <1>2. /\ Component' = Component /\ (\A k : Port(k)' = Port(k))
        /\ manifest' = manifest /\ opened' = opened
    BY <1>1, ComponentKept DEF package
  <1>3. /\ \A q : FindInputState(q)' = FindInputState(q)
        /\ \A q : FindConnection(q, FALSE)' = FindConnection(q, FALSE)
        /\ \A q : FindDeclaredInput(q)' = FindDeclaredInput(q)
        /\ \A c : Forwards(c)' = Forwards(c)
    BY <1>2 DEF FindInputState, FindConnection, FindDeclaredInput, Forwards
  <1>4. /\ \A q : TakenFrom(q) => TakenFrom(q)'
        /\ \A s, q : GeneratedFrom(s, q) => GeneratedFrom(s, q)'
    <2>1. ASSUME NEW q, TakenFrom(q) PROVE TakenFrom(q)'
      <3>1. q \in DOMAIN endpoint_values
        BY <2>1 DEF TakenFrom
      <3>2. QED
        BY <1>1, <1>2, <2>1, <3>1, TakenKept
    <2>2. ASSUME NEW s, NEW q, GeneratedFrom(s, q) PROVE GeneratedFrom(s, q)'
      BY <1>1, <1>2, <1>3, <2>2 DEF GeneratedFrom
    <2>3. QED
      BY <2>1, <2>2
  <1>5. RanInv' <=> RanInv
    BY <1>1, <1>2 DEF RanInv
  <1>6. ResolvedInv => ResolvedInv'
    <2>1. SUFFICES ASSUME ResolvedInv PROVE ResolvedInv'
      OBVIOUS
    <2>2. ASSUME NEW k \in 1..(run.port - 1)
          PROVE  /\ TakenFrom(Port(k))'
                 /\ \A i \in 1..(k - 1) : GeneratedFrom(Port(i), Port(k))'
      <3>1. PICK q : q = Port(k) /\ q = Port(k)'
        BY <1>2
      <3>2. TakenFrom(q)'
        BY <1>4, <2>1, <3>1 DEF ResolvedInv
      <3>3. TakenFrom(Port(k))'
        BY <3>1, <3>2 DEF TakenFrom
      <3>4. ASSUME NEW i \in 1..(k - 1) PROVE GeneratedFrom(Port(i), Port(k))'
        <4>1. PICK s : s = Port(i) /\ s = Port(i)'
          BY <1>2
        <4>2. GeneratedFrom(s, q)'
          BY <1>4, <2>1, <3>1, <4>1 DEF ResolvedInv
        <4>3. QED
          BY <3>1, <4>1, <4>2 DEF GeneratedFrom
      <3>5. QED
        BY <3>3, <3>4
    <2>3. QED
      BY <1>1, <1>2, <2>1, <2>2 DEF ResolvedInv
  <1>7. QED
    BY <1>1, <1>5, <1>6 DEF PassInv

LEMMA PassInit == DataflowInit => PassInv
  <1>1. SUFFICES ASSUME DataflowInit PROVE PassInv
    OBVIOUS
  <1>2. run.at = "idle"
    BY <1>1 DEF DataflowInit, Idle
  <1>3. QED
    BY <1>2 DEF PassInv

LEMMA StepStageIs ==
    ASSUME StepStage
    PROVE  /\ phase = "loaded" /\ run.at = "idle" /\ UNCHANGED package
           /\ endpoint_values' = endpoint_values /\ state_values' = state_values
           /\ run'.port = 0 /\ run'.at \in {"idle", "sources"}
           /\ run'.error \in {Idle.error} \cup Refusals
           /\ run'.at = "sources" => run'.error = Idle.error
           /\ run'.at = "idle" => run'.error \in Refusals
  <1>1. PICK name \in Stages : Begins(name)
    BY StepStageBegins
  <1>2. /\ run'.port = 0
        /\ \/ run'.at = "sources" /\ run'.error = Idle.error
           \/ run'.at = "idle" /\ run'.error \in Refusals
    BY <1>1 DEF Begins
  <1>3. /\ phase = "loaded" /\ run.at = "idle" /\ UNCHANGED package
        /\ endpoint_values' = endpoint_values /\ state_values' = state_values
    BY DEF StepStage
  <1>4. QED
    BY <1>2, <1>3

LEMMA PassStep ==
    LoadInv /\ SessionInv /\ OrderInv /\ PassInv /\ [Next]_vars => PassInv'
  <1>1. SUFFICES ASSUME LoadInv, SessionInv, OrderInv, PassInv, [Next]_vars
                 PROVE  PassInv'
    OBVIOUS
  <1>2. CASE UNCHANGED vars
    BY <1>1, <1>2, PassKept
  <1>3. CASE PackageNext /\ UNCHANGED session
    <2>1. phase # "loaded"
      BY <1>3 DEF PackageNext, ParseDocument, CheckPlacement, OpenComponent,
                  FileFails, ResolveAssets, Construct
    <2>2. run'.at = "idle"
      BY <1>1, <1>3, <2>1 DEF session, SessionInv, Idle
    <2>3. QED
      BY <2>2, NothingCarried
  <1>4. CASE StepStage
    <2>1. run'.port = 0 /\ run'.at \in {"idle", "sources"}
      BY <1>4, StepStageIs
    <2>2. QED
      BY <2>1, OrderingKeepsPass, NothingCarried
  <1>5. CASE AddSource \/ EndSources \/ PopReady \/ DropEdge \/ NextPop
    <2>1. /\ run.at \in {"sources", "ordering"}
          /\ \/ run' = [run EXCEPT !.next = @ + 1]
             \/ run' = [run EXCEPT !.at = "ordering"]
             \/ run' = run
      BY <1>5 DEF AddSource, EndSources, PopReady, DropEdge, NextPop
    <2>2. run'.at \in {"sources", "ordering"} /\ run'.port = run.port
      BY <1>1, <2>1, IdleIs DEF SessionInv
    <2>3. run.port = 0
      BY <1>1, <2>1 DEF PassInv
    <2>4. QED
      BY <2>2, <2>3, OrderingKeepsPass
  <1>6. CASE StopPass \/ EndComponents \/ PublishGuided \/ StoreState \/ EndPass
    <2>1. run'.at \in {"idle", "states"}
      <3>1. CASE StopPass
        BY <1>1, <3>1, IdleIs DEF StopPass, FailPass, SessionInv
      <3>2. CASE EndComponents
        BY <1>1, <3>2, IdleIs DEF EndComponents, SessionInv
      <3>3. CASE StoreState
        <4>1. run.at = "states"
          BY <3>3 DEF StoreState
        <4>2. QED
          BY <1>1, <3>3, <4>1, IdleIs, StoreStateIs DEF StoredWith, FailPass, SessionInv
      <3>4. CASE EndPass
        BY <1>1, <3>4, IdleIs DEF EndPass, SessionInv
      <3>5. CASE PublishGuided
        BY <1>1, <3>5, PublishGuidedIs
      <3>6. QED
        BY <1>6, <3>1, <3>2, <3>3, <3>4, <3>5
    <2>2. QED
      BY <2>1, NothingCarried
  <1>7. CASE Steps
    BY <1>1, <1>5, <1>6, <1>7, BeginOrder, SkipKeepsPass, BeginKeepsPass,
       ResolveKeepsPass, CallKeepsPass DEF Steps
  <1>8. CASE Reset \/ (phase = "loaded" /\ \E name \in Stages : ReleaseStage(name))
    <2>1. run.at = "idle" /\ run' = run
      BY <1>8 DEF Reset, ReleaseStage
    <2>2. QED
      BY <2>1, NothingCarried
  <1>9. QED
    BY <1>1, <1>2, <1>3, <1>4, <1>7, <1>8 DEF Next

-----------------------------------------------------------------------------
(* Where the tensors of models are *)

\* An output that is no input, as its own component made it.
Own(p) ==
    /\ IsOutput(manifest, p) /\ ~IsInput(manifest, p) /\ p # Host
    /\ endpoint_values[p].from = p

OutputsInv ==
    \A p \in DOMAIN endpoint_values :
        Own(p) => OnItsDevice(endpoint_values[p], p)

CarriedState(k, i) ==
    LET s == manifest.states[k]
        c == manifest.connections[i]
    IN (/\ s.name \in DOMAIN state_values
        /\ c.recurrent /\ c.target = s.input
        /\ Forwards(c)
        /\ ~IsInput(manifest, c.source)
        /\ state_values[s.name].from = c.source)
       => OnItsDevice(state_values[s.name], c.source)

StatesInv ==
    \A k \in DOMAIN manifest.states : \A i \in DOMAIN manifest.connections :
        CarriedState(k, i)

LEMMA DevicesAre == DevicesInv <=> (phase = "loaded" => OutputsInv /\ StatesInv)
  BY DEF DevicesInv, OutputsInv, Own, StatesInv, CarriedState

LEMMA DevicesKept ==
    ASSUME UNCHANGED package
    PROVE  /\ manifest' = manifest /\ phase' = phase
           /\ \A name : OutputDevice(name)' = OutputDevice(name)
           /\ \A v, p : OnItsDevice(v, p)' <=> OnItsDevice(v, p)
           /\ \A c : Forwards(c)' = Forwards(c)
  <1>1. manifest' = manifest /\ phase' = phase /\ opened' = opened /\ request' = request
    BY DEF package
  <1>2. Asked' = Asked
    BY <1>1 DEF Asked
  <1>3. \A name : OutputDevice(name)' = OutputDevice(name)
    BY <1>1, <1>2 DEF OutputDevice
  <1>4. QED
    BY <1>1, <1>3 DEF OnItsDevice, Forwards

\* A step that adds no output and no state.
LEMMA FewerValues ==
    ASSUME DevicesInv, UNCHANGED package,
           DOMAIN endpoint_values' \subseteq DOMAIN endpoint_values,
           \A p \in DOMAIN endpoint_values' : endpoint_values'[p] = endpoint_values[p],
           DOMAIN state_values' \subseteq DOMAIN state_values,
           \A s \in DOMAIN state_values' : state_values'[s] = state_values[s]
    PROVE  DevicesInv'
  <1>1. SUFFICES ASSUME phase = "loaded" PROVE OutputsInv' /\ StatesInv'
    BY DevicesKept, DevicesAre DEF DevicesInv, OutputsInv, Own, StatesInv, CarriedState
  <1>2. OutputsInv /\ StatesInv
    BY <1>1, DevicesAre
  <1>3. OutputsInv'
    BY <1>2, DevicesKept DEF OutputsInv, Own
  <1>4. ASSUME NEW k \in DOMAIN manifest.states, NEW i \in DOMAIN manifest.connections
        PROVE  CarriedState(k, i)'
    <2>1. CarriedState(k, i)
      BY <1>2 DEF StatesInv
    <2>2. QED
      BY <2>1, DevicesKept DEF CarriedState
  <1>5. StatesInv'
    BY <1>4, DevicesKept DEF StatesInv
  <1>6. QED
    BY <1>3, <1>5

LEMMA ResolveKeepsDevices ==
    ASSUME LoadInv, SessionInv, OrderInv, DevicesInv, ResolvePort
    PROVE  DevicesInv'
  <1>1. /\ AtComponent /\ run.at = "components"
        /\ run.port \in DOMAIN Component.inputs
        /\ UNCHANGED package /\ state_values' = state_values
    BY DEF ResolvePort, AtComponent
  <1>2. CASE UNCHANGED endpoint_values
    BY <1>1, <1>2, FewerValues
  <1>3. ASSUME NEW v, ResolvedWith(v)
        PROVE  DevicesInv'
    <2>1. phase = "loaded"
      BY <1>1, StageIs
    <2>2. OutputsInv /\ StatesInv
      BY <2>1, DevicesAre
    <2>3. PICK p : p = Port(run.port)
      OBVIOUS
    <2>4. IsInput(manifest, p)
      BY <1>1, <2>3, CurrentIs
    <2>5. /\ DOMAIN endpoint_values' = DOMAIN endpoint_values \cup {p}
          /\ \A q \in DOMAIN endpoint_values :
                q # p => endpoint_values'[q] = endpoint_values[q]
      <3>1. endpoint_values' = Put(endpoint_values, p, v)
        BY <1>3, <2>3 DEF ResolvedWith
      <3>2. QED
        BY <3>1 DEF Put
    <2>6. OutputsInv'
      BY <1>1, <2>2, <2>4, <2>5, DevicesKept DEF OutputsInv, Own
    <2>7. ASSUME NEW k \in DOMAIN manifest.states, NEW i \in DOMAIN manifest.connections
          PROVE  CarriedState(k, i)'
      <3>1. CarriedState(k, i)
        BY <2>2 DEF StatesInv
      <3>2. QED
        BY <1>1, <3>1, DevicesKept DEF CarriedState
    <2>8. StatesInv'
      BY <1>1, <2>7, DevicesKept DEF StatesInv
    <2>9. (DevicesInv <=> (phase = "loaded" => OutputsInv /\ StatesInv))'
      BY DevicesAre, PTL
    <2>10. QED
      BY <2>6, <2>8, <2>9
  <1>4. QED
    BY <1>2, <1>3, ResolvePortIs

LEMMA CallKeepsDevices ==
    ASSUME LoadInv, SessionInv, OrderInv, DevicesInv, CallModel
    PROVE  DevicesInv'
  <1> DEFINE made == Made(Component)
  <1>1. /\ run.at = "components" /\ run.next \in DOMAIN order
        /\ UNCHANGED package /\ state_values' = state_values
        /\ endpoint_values' = Over(made, endpoint_values)
    BY CallModelIs
  <1>2. phase = "loaded"
    BY <1>1, StageIs
  <1>3. OutputsInv /\ StatesInv
    BY <1>2, DevicesAre
  <1>4. \A p \in DOMAIN made : made[p].from = p /\ OnItsDevice(made[p], p)
    <2>1. ASSUME NEW p \in Outputs(Component)
          PROVE  made[p].from = p /\ OnItsDevice(made[p], p)
      <3>1. /\ made[p].from = p /\ made[p].device = OutputDevice(Component.name)
            /\ made[p].reshaped = FALSE
        BY DEF Made
      <3>2. p[1] = Component.name
        BY DEF Outputs
      <3>3. QED
        BY <3>1, <3>2 DEF OnItsDevice
    <2>2. QED
      BY <2>1, MadeAreTensors
  <1> HIDE DEF made
  <1>5. /\ DOMAIN endpoint_values' = DOMAIN made \cup DOMAIN endpoint_values
        /\ \A p \in DOMAIN made : endpoint_values'[p] = made[p]
        /\ \A p \in DOMAIN endpoint_values :
              p \notin DOMAIN made => endpoint_values'[p] = endpoint_values[p]
    BY <1>1 DEF Over
  <1>6. OutputsInv'
    <2>1. ASSUME NEW p \in DOMAIN endpoint_values', Own(p)'
          PROVE  /\ endpoint_values'[p].device = OutputDevice(p[1])
                 /\ ~endpoint_values'[p].reshaped
      <3>1. CASE p \in DOMAIN made
        BY <1>4, <1>5, <3>1 DEF OnItsDevice
      <3>2. CASE p \notin DOMAIN made
        <4>1. Own(p)
          BY <1>1, <1>5, <2>1, <3>2, DevicesKept DEF Own
        <4>2. QED
          BY <1>3, <1>5, <3>2, <4>1 DEF OutputsInv, OnItsDevice
      <3>3. QED
        BY <3>1, <3>2
    <2>2. \A name : OutputDevice(name)' = OutputDevice(name)
      BY <1>1, DevicesKept
    <2>3. QED
      BY <2>1, <2>2 DEF OutputsInv, OnItsDevice
  <1>7. ASSUME NEW k \in DOMAIN manifest.states, NEW i \in DOMAIN manifest.connections
        PROVE  CarriedState(k, i)'
    <2>1. CarriedState(k, i)
      BY <1>3 DEF StatesInv
    <2>2. QED
      BY <1>1, <2>1, DevicesKept DEF CarriedState
  <1>8. StatesInv'
    BY <1>1, <1>7, DevicesKept DEF StatesInv
  <1>9. (DevicesInv <=> (phase = "loaded" => OutputsInv /\ StatesInv))'
    BY DevicesAre, PTL
  <1>10. QED
    BY <1>6, <1>8, <1>9

\* What guidance publishes is no longer the component's own.
LEMMA PublishKeepsDevices ==
    ASSUME LoadInv, SessionInv, DevicesInv, PublishGuided
    PROVE  DevicesInv'
  <1>1. /\ run.at = "components" /\ UNCHANGED package
        /\ state_values' = state_values
    BY PublishGuidedIs
  <1>2. CASE UNCHANGED endpoint_values
    BY <1>1, <1>2, FewerValues
  <1>3. ASSUME NEW S, endpoint_values' = Over(Published(S), endpoint_values)
        PROVE  DevicesInv'
    <2>1. OutputsInv /\ StatesInv
      BY <1>1, StageIs, DevicesAre
    <2>2. /\ DOMAIN endpoint_values' = S \cup DOMAIN endpoint_values
          /\ \A p \in S : endpoint_values'[p] = HostTensor(run.pass)
          /\ \A p \in DOMAIN endpoint_values :
                p \notin S => endpoint_values'[p] = endpoint_values[p]
      BY <1>3 DEF Over, Published
    <2>3. ASSUME NEW p \in DOMAIN endpoint_values', Own(p)'
          PROVE  OnItsDevice(endpoint_values[p], p)'
      <3>1. p # Host /\ endpoint_values'[p].from = p
        BY <2>3 DEF Own, Host
      <3>2. p \notin S
        BY <2>2, <3>1, HostTensorIs
      <3>3. Own(p)
        BY <1>1, <2>2, <2>3, <3>2, DevicesKept DEF Own
      <3>4. QED
        BY <1>1, <2>1, <2>2, <3>2, <3>3, DevicesKept DEF OutputsInv
    <2>4. OutputsInv'
      BY <2>3 DEF OutputsInv
    <2>5. ASSUME NEW k \in DOMAIN manifest.states, NEW i \in DOMAIN manifest.connections
          PROVE  CarriedState(k, i)'
      <3>1. CarriedState(k, i)
        BY <2>1 DEF StatesInv
      <3>2. QED
        BY <1>1, <3>1, DevicesKept DEF CarriedState
    <2>6. StatesInv'
      BY <1>1, <2>5, DevicesKept DEF StatesInv
    <2>7. (DevicesInv <=> (phase = "loaded" => OutputsInv /\ StatesInv))'
      BY DevicesAre, PTL
    <2>8. QED
      BY <2>4, <2>6, <2>7
  <1>4. QED
    BY <1>2, <1>3, PublishGuidedIs

\* What a connection of a state leaves is where the output left it, when the
\* connection hands it on as it is.
LEMMA StoreKeepsDevices ==
    ASSUME LoadInv, SessionInv, DevicesInv, StoreState
    PROVE  DevicesInv'
  <1>1. /\ run.at = "states" /\ run.next \in DOMAIN manifest.states
        /\ UNCHANGED package /\ endpoint_values' = endpoint_values
    BY DEF StoreState
  <1>2. CASE UNCHANGED state_values
    BY <1>1, <1>2, FewerValues
  <1>3. ASSUME NEW v, StoredWith(v)
        PROVE  DevicesInv'
    <2>1. phase = "loaded" /\ Sound(manifest)
      BY <1>1, StageIs
    <2>2. OutputsInv /\ StatesInv
      BY <2>1, DevicesAre
    <2>3. PICK n : n = run.next
      OBVIOUS
    <2> DEFINE s == manifest.states[n]
    <2>4. /\ s.output \in DOMAIN endpoint_values
          /\ state_values' = Put(state_values, s.name, v)
          /\ \E j \in FindStateConnection(s) :
                v \in ApplyConnection(manifest.connections[j],
                                      endpoint_values[s.output],
                                      ResolveInput(s.input))
      BY <1>3, <2>3 DEF StoredWith
    <2>5. PICK j \in FindStateConnection(s) :
              v \in ApplyConnection(manifest.connections[j],
                                    endpoint_values[s.output],
                                    ResolveInput(s.input))
      BY <2>4
    <2>6. PICK w : w = endpoint_values[s.output]
      OBVIOUS
    <2>7. IsTensor(w)
      BY <2>4, <2>6 DEF SessionInv, AllTensors
    <2>8. Applied(manifest.connections[j], w, v)
      BY <2>5, <2>6, <2>7, AppliedIs
    <2>9. /\ j \in DOMAIN manifest.connections
          /\ manifest.connections[j].target = s.input
          /\ manifest.connections[j].recurrent = TRUE
          /\ manifest.connections[j].source = s.output
      BY <2>5 DEF FindStateConnection, FindConnection
    <2>10. /\ DOMAIN state_values' = DOMAIN state_values \cup {s.name}
           /\ state_values'[s.name] = v
           /\ \A x \in DOMAIN state_values : x # s.name => state_values'[x] = state_values[x]
      BY <2>4 DEF Put
    <2>11. n \in DOMAIN manifest.states
      BY <1>1, <2>3
    <2>12. OutputsInv'
      BY <1>1, <2>2, DevicesKept DEF OutputsInv, Own
    <2>13. ASSUME NEW k \in DOMAIN manifest.states, NEW i \in DOMAIN manifest.connections
           PROVE  CarriedState(k, i)'
      <3>1. CASE k = n
        <4> DEFINE c == manifest.connections[i]
        <4>1. SUFFICES ASSUME c.recurrent, c.target = s.input, Forwards(c),
                              ~IsInput(manifest, c.source), v.from = c.source
                       PROVE  OnItsDevice(v, c.source)
          BY <1>1, <2>10, <3>1, DevicesKept DEF CarriedState
        <4>2. i = j
          BY <2>1, <2>9, <4>1 DEF Sound, ConnectionsSound
        <4>3. c.target \notin run.overrides /\ w.from = c.source /\ c.source # Host
          <5>1. c.source # Host
            BY <2>1 DEF Sound, ConnectionsSound
          <5>2. QED
            BY <2>8, <4>1, <4>2, <5>1, HostTensorIs DEF Applied
        <4>4. SamePlace(v, w)
          BY <2>8, <4>1, <4>2, <4>3 DEF Applied
        <4>5. OnItsDevice(w, c.source)
          <5>1. IsOutput(manifest, c.source)
            BY <2>1 DEF Sound, ConnectionsSound
          <5>2. QED
            BY <2>2, <2>4, <2>6, <2>9, <4>1, <4>2, <4>3, <5>1 DEF OutputsInv, Own
        <4>6. QED
          BY <4>4, <4>5 DEF OnItsDevice, SamePlace
      <3>2. CASE k # n
        <4>1. manifest.states[k].name # s.name
          BY <2>1, <2>11, <3>2 DEF Sound, StatesSound
        <4>2. CarriedState(k, i)
          BY <2>2 DEF StatesInv
        <4>3. QED
          BY <1>1, <2>10, <4>1, <4>2, DevicesKept DEF CarriedState
      <3>3. QED
        BY <3>1, <3>2
    <2>14. StatesInv'
      BY <1>1, <2>13, DevicesKept DEF StatesInv
    <2>15. (DevicesInv <=> (phase = "loaded" => OutputsInv /\ StatesInv))'
      BY DevicesAre, PTL
    <2>16. QED
      BY <2>12, <2>14, <2>15
  <1>4. QED
    BY <1>2, <1>3, StoreStateIs

LEMMA DevicesInit == DataflowInit => DevicesInv
  <1>1. SUFFICES ASSUME DataflowInit PROVE DevicesInv
    OBVIOUS
  <1>2. phase = "start"
    BY <1>1 DEF DataflowInit, PackageInit
  <1>3. QED
    BY <1>2 DEF DevicesInv

LEMMA DevicesStep ==
    LoadInv /\ SessionInv /\ OrderInv /\ DevicesInv /\ [Next]_vars => DevicesInv'
  <1>1. SUFFICES ASSUME LoadInv, SessionInv, OrderInv, DevicesInv, [Next]_vars
                 PROVE  DevicesInv'
    OBVIOUS
  <1>2. CASE UNCHANGED vars
    <2>1. UNCHANGED package /\ endpoint_values' = endpoint_values /\ state_values' = state_values
      BY <1>2 DEF vars, session, values
    <2>2. QED
      BY <1>1, <2>1, FewerValues
  <1>3. CASE PackageNext /\ UNCHANGED session
    <2>1. phase # "loaded"
      BY <1>3 DEF PackageNext, ParseDocument, CheckPlacement, OpenComponent,
                  FileFails, ResolveAssets, Construct
    <2>2. endpoint_values' = <<>> /\ state_values' = <<>>
      BY <1>1, <1>3, <2>1 DEF session, values, SessionInv
    <2>3. DOMAIN endpoint_values' = {} /\ DOMAIN state_values' = {}
      BY <2>2
    <2>4. OutputsInv' /\ StatesInv'
      BY <2>3 DEF OutputsInv, StatesInv, CarriedState
    <2>5. (DevicesInv <=> (phase = "loaded" => OutputsInv /\ StatesInv))'
      BY DevicesAre, PTL
    <2>6. QED
      BY <2>4, <2>5
  <1>4. CASE StepStage
    <2>1. UNCHANGED package /\ endpoint_values' = endpoint_values /\ state_values' = state_values
      BY <1>4, StepStageIs
    <2>2. QED
      BY <1>1, <2>1, FewerValues
  <1>5. CASE \/ AddSource \/ EndSources \/ PopReady \/ DropEdge \/ NextPop \/ EndOrder
             \/ SkipComponent \/ BeginComponent \/ StopPass \/ EndComponents
             \/ EndPass
    <2>1. UNCHANGED package /\ endpoint_values' = endpoint_values /\ state_values' = state_values
      <3>1. CASE AddSource \/ EndSources \/ PopReady \/ DropEdge \/ NextPop \/ EndOrder
        BY <3>1 DEF AddSource, EndSources, PopReady, DropEdge, NextPop, EndOrder, values
      <3>2. CASE SkipComponent \/ BeginComponent \/ StopPass \/ EndComponents \/ EndPass
        BY <3>2 DEF SkipComponent, BeginComponent, StopPass, EndComponents, EndPass, values
      <3>3. QED
        BY <1>5, <3>1, <3>2
    <2>2. QED
      BY <1>1, <2>1, FewerValues
  <1>6. CASE Steps
    BY <1>1, <1>5, <1>6, ResolveKeepsDevices, CallKeepsDevices,
       PublishKeepsDevices, StoreKeepsDevices DEF Steps
  <1>7. CASE Reset
    <2>1. UNCHANGED package /\ endpoint_values' = <<>> /\ state_values' = <<>>
      BY <1>7 DEF Reset
    <2>2. DOMAIN endpoint_values' = {} /\ DOMAIN state_values' = {}
      BY <2>1
    <2>3. QED
      BY <1>1, <2>1, <2>2, FewerValues
  <1>8. CASE phase = "loaded" /\ \E name \in Stages : ReleaseStage(name)
    <2>1. PICK name \in Stages : ReleaseStage(name)
      BY <1>8
    <2>2. /\ UNCHANGED package
          /\ \E S : state_values' = Without(state_values, S)
          /\ \E S : endpoint_values' = Without(endpoint_values, S)
      BY <2>1 DEF ReleaseStage
    <2>3. PICK S : state_values' = Without(state_values, S)
      BY <2>2
    <2>4. PICK T : endpoint_values' = Without(endpoint_values, T)
      BY <2>2
    <2>5. /\ DOMAIN state_values' \subseteq DOMAIN state_values
          /\ DOMAIN endpoint_values' \subseteq DOMAIN endpoint_values
          /\ \A p \in DOMAIN endpoint_values' : endpoint_values'[p] = endpoint_values[p]
          /\ \A s \in DOMAIN state_values' : state_values'[s] = state_values[s]
      BY <2>3, <2>4 DEF Without
    <2>6. QED
      BY <1>1, <2>2, <2>5, FewerValues
  <1>9. QED
    BY <1>1, <1>2, <1>3, <1>4, <1>6, <1>7, <1>8 DEF Next

-----------------------------------------------------------------------------
(* The inductive invariant *)

(***************************************************************************)
(* What loading has accepted, what the session holds, how far the stage is *)
(* in order, what the ports of the pass carry and where the tensors are:   *)
(* these hold in every state of every session of every package.            *)
(***************************************************************************)
THEOREM SpecKeepsDataflow == Spec => []DataflowInv
  <1>1. DataflowInit => DataflowInv
    BY LoadInit, SessionInit, OrderInit, PassInit, DevicesInit DEF DataflowInv
  <1>2. DataflowInv /\ [Next]_vars => DataflowInv'
    BY LoadStep, SessionStep, OrderStep, PassStep, DevicesStep DEF DataflowInv
  <1>3. QED
    BY <1>1, <1>2, PTL DEF Spec

-----------------------------------------------------------------------------
(* How a pass ends *)

StageOrdered ==
    \A i \in OrderingEdges(manifest, Stage) :
        \E a, b \in DOMAIN order :
            /\ a < b
            /\ order[a] = manifest.connections[i].source[1]
            /\ order[b] = manifest.connections[i].target[1]

LEMMA RunsInOrder ==
    ASSUME OrderInv, run.at = "components"
    PROVE  StageOrdered
  <1>1. Placed /\ ToSet(order) = ToSet(Stage.components)
    BY DEF OrderInv, AllInOrder
  <1>2. SUFFICES ASSUME NEW i \in OrderingEdges(manifest, Stage)
                 PROVE  \E a, b \in DOMAIN order :
                           /\ a < b
                           /\ order[a] = manifest.connections[i].source[1]
                           /\ order[b] = manifest.connections[i].target[1]
    BY DEF StageOrdered
  <1>3. manifest.connections[i].target[1] \in ToSet(Stage.components)
    BY <1>2 DEF OrderingEdges, OrdersStage, StageOwns
  <1>4. PICK b \in DOMAIN order : order[b] = manifest.connections[i].target[1]
    BY <1>1, <1>3 DEF ToSet
  <1>5. i \in EntersFrom(manifest, OrderingEdges(manifest, Stage), order[b])
    BY <1>2, <1>4 DEF EntersFrom
  <1>6. PICK a \in DOMAIN order :
            a < b /\ order[a] = manifest.connections[i].source[1]
    BY <1>1, <1>5 DEF Placed
  <1>7. QED
    BY <1>4, <1>6

\* The component whose input failed for want of an output does not come after
\* the one that makes it.
SourceWasLeftOut ==
    \A i \in FindConnection(Port(run.port), FALSE) :
        LET source == manifest.connections[i].source[1]
        IN StageOwns(Stage, source) => source \in run.skipped

\* The errors that no accepted package meets.
Impossible == {"dataflow cycle", "no runtime source", "no recurrent connection"}

Harmless == {Idle.error, "stopped", "no value"} \cup Refusals

FailureInv ==
    /\ run.at # "idle" => run.error = Idle.error
    /\ run.error \notin Impossible
    /\ run.error = "unavailable output" => SourceWasLeftOut

LEMMA NoErrorYet ==
    Idle.error \notin Impossible \cup {"unavailable output"}
  BY Zenon DEF Idle, Impossible

LEMMA HarmlessIs ==
    /\ Harmless \cap Impossible = {}
    /\ "unavailable output" \notin Harmless \cup Impossible
  BY NoErrorYet DEF Harmless, Refusals, Impossible

LEMMA EndsHarmlessly ==
    ASSUME run'.error \in Harmless, run'.at # "idle" => run'.error = Idle.error
    PROVE  FailureInv'
  <1>1. run'.error # "unavailable output" /\ run'.error \notin Impossible
    BY HarmlessIs
  <1>2. Impossible' = Impossible /\ Idle.error' = Idle.error
    BY DEF Impossible, Idle
  <1>3. QED
    BY <1>1, <1>2 DEF FailureInv

LEMMA FailureKept ==
    ASSUME FailureInv, UNCHANGED package, run' = run, order' = order
    PROVE  FailureInv'
  <1>1. /\ Component' = Component /\ \A k : Port(k)' = Port(k)
        /\ manifest' = manifest
    BY ComponentKept
  <1>2. Stage' = Stage
    BY StageKept
  <1>3. \A port : FindConnection(port, FALSE)' = FindConnection(port, FALSE)
    BY <1>1 DEF FindConnection
  <1>4. SourceWasLeftOut' <=> SourceWasLeftOut
    <2>1. PICK q : q = Port(run.port)
      OBVIOUS
    <2>2. Port(run.port)' = q
      BY <2>1, <1>1
    <2>3. QED
      BY <1>1, <1>2, <1>3, <2>1, <2>2 DEF SourceWasLeftOut, FindConnection
  <1>5. Impossible' = Impossible /\ Idle.error' = Idle.error
    BY DEF Impossible, Idle
  <1>6. QED
    BY <1>4, <1>5 DEF FailureInv

LEMMA FailureInit == DataflowInit => FailureInv
  <1>1. SUFFICES ASSUME DataflowInit PROVE FailureInv
    OBVIOUS
  <1>2. run = Idle /\ Idle.at = "idle"
    BY <1>1 DEF DataflowInit, Idle
  <1>3. QED
    BY <1>2, NoErrorYet DEF FailureInv

\* An input that resolves to nothing in an accepted package.
LEMMA ResolveFails ==
    ASSUME LoadInv, SessionInv, OrderInv, PassInv, AtComponent,
           run.port \in DOMAIN Component.inputs
    PROVE  /\ Reason(Port(run.port)) \in {"unavailable output", "no value"}
           /\ Reason(Port(run.port)) = "unavailable output" => SourceWasLeftOut
  <1> DEFINE port == Port(run.port)
  <1>1. Sound(manifest)
    BY StageIs DEF AtComponent
  <1>2. FindConnection(port, FALSE) = {} <=> FindDeclaredInput(port) # {}
    BY OneSourceOnly
  <1>3. port[1] = Component.name
    BY DEF Port
  <1> HIDE DEF port
  <1>4. Reason(port) \in {"unavailable output", "no value"}
    BY <1>2 DEF Reason
  <1>5. ASSUME Reason(port) = "unavailable output",
               NEW i \in FindConnection(port, FALSE),
               StageOwns(Stage, manifest.connections[i].source[1])
        PROVE  manifest.connections[i].source[1] \in run.skipped
    <2>1. PICK j \in FindConnection(port, FALSE) :
             manifest.connections[j].source \notin DOMAIN endpoint_values
      BY <1>5 DEF Reason
    <2>2. i = j
      BY <1>1, <1>5, <2>1 DEF FindConnection, Sound, ConnectionsSound
    <2>3. /\ i \in DOMAIN manifest.connections
          /\ ~manifest.connections[i].recurrent
          /\ manifest.connections[i].target[1] = Component.name
      BY <1>3, <1>5 DEF FindConnection
    <2>4. QED
      BY <1>5, <2>1, <2>2, <2>3, SourceHasRun
  <1>6. QED
    BY <1>4, <1>5 DEF port, SourceWasLeftOut

LEMMA ResolveKeepsFailure ==
    ASSUME LoadInv, SessionInv, OrderInv, PassInv, FailureInv, ResolvePort
    PROVE  FailureInv'
  <1>1. /\ AtComponent /\ run.at = "components"
        /\ run.port \in DOMAIN Component.inputs
        /\ UNCHANGED package /\ order' = order
    BY DEF ResolvePort, AtComponent, ordering
  <1>2. run.error = Idle.error /\ DOMAIN run = DOMAIN Idle
    BY <1>1 DEF FailureInv, SessionInv
  <1>3. CASE \E v : ResolvedWith(v)
    <2>1. run'.error = run.error
      BY <1>2, <1>3, IdleIs DEF ResolvedWith
    <2>2. QED
      BY <1>2, <2>1, EndsHarmlessly DEF Harmless
  <1>4. CASE FailPass(Reason(Port(run.port)))
    <2>1. /\ run'.error = Reason(Port(run.port)) /\ run'.at = "idle"
          /\ run'.port = run.port /\ run'.next = run.next
          /\ run'.skipped = run.skipped /\ run'.stage = run.stage
      BY <1>2, <1>4, IdleIs DEF FailPass
    <2>2. /\ Reason(Port(run.port)) \in {"unavailable output", "no value"}
          /\ Reason(Port(run.port)) = "unavailable output" => SourceWasLeftOut
      BY <1>1, ResolveFails
    <2>3. CASE Reason(Port(run.port)) = "no value"
      BY <2>1, <2>3, EndsHarmlessly DEF Harmless
    <2>4. CASE Reason(Port(run.port)) = "unavailable output"
      <3>1. /\ Component' = Component /\ \A k : Port(k)' = Port(k)
            /\ manifest' = manifest
        BY <1>1, <2>1, ComponentKept
      <3>2. Stage' = Stage
        BY <1>1, <2>1, StageKept
      <3>3. PICK q : q = Port(run.port)
        OBVIOUS
      <3>4. PICK n : n = run.port
        OBVIOUS
      <3>5. Port(n)' = q /\ run'.port = n
        BY <2>1, <3>1, <3>3, <3>4
      <3>6. Port(run.port)' = q
        BY <3>5 DEF Port
      <3>7. SourceWasLeftOut'
        BY <2>1, <2>2, <2>4, <3>1, <3>2, <3>3, <3>6 DEF SourceWasLeftOut, FindConnection
      <3>8. "unavailable output" \notin Impossible'
        BY DEF Impossible
      <3>9. QED
        BY <2>1, <2>4, <3>7, <3>8 DEF FailureInv
    <2>5. QED
      BY <2>2, <2>3, <2>4
  <1>5. QED
    BY <1>3, <1>4, ResolvePortIs

LEMMA StoreKeepsFailure ==
    ASSUME LoadInv, SessionInv, FailureInv, StoreState
    PROVE  FailureInv'
  <1>1. run.at = "states" /\ run.next \in DOMAIN manifest.states
    BY DEF StoreState
  <1>2. run.error = Idle.error /\ DOMAIN run = DOMAIN Idle /\ Sound(manifest)
    BY <1>1, StageIs DEF FailureInv, SessionInv
  <1>3. FindStateConnection(manifest.states[run.next]) # {}
    <2>1. PICK k \in DOMAIN manifest.connections :
             /\ manifest.connections[k].recurrent
             /\ manifest.connections[k].source = manifest.states[run.next].output
             /\ manifest.connections[k].target = manifest.states[run.next].input
      BY <1>1, <1>2 DEF Sound, StatesSound
    <2>2. k \in FindStateConnection(manifest.states[run.next])
      BY <2>1 DEF FindStateConnection, FindConnection
    <2>3. QED
      BY <2>2
  <1>4. CASE run' = [run EXCEPT !.next = @ + 1]
    <2>1. run'.error = run.error
      BY <1>2, <1>4, IdleIs
    <2>2. QED
      BY <1>2, <2>1, EndsHarmlessly DEF Harmless
  <1>5. CASE FailPass(IF FindStateConnection(manifest.states[run.next]) = {}
                      THEN "no recurrent connection" ELSE "no value")
    <2>1. run'.error = "no value" /\ run'.at = "idle"
      BY <1>2, <1>3, <1>5, IdleIs DEF FailPass
    <2>2. QED
      BY <2>1, EndsHarmlessly DEF Harmless
  <1>6. QED
    BY <1>4, <1>5, StoreStateIs DEF StoredWith

LEMMA FailureStep ==
    /\ LoadInv /\ SessionInv /\ OrderInv /\ PassInv /\ FailureInv
    /\ [Next]_vars
    => FailureInv'
  <1>1. SUFFICES ASSUME LoadInv, SessionInv, OrderInv, PassInv, FailureInv,
                        [Next]_vars
                 PROVE  FailureInv'
    OBVIOUS
  <1>2. CASE UNCHANGED vars
    BY <1>1, <1>2, FailureKept DEF vars, session, ordering
  <1>3. CASE PackageNext /\ UNCHANGED session
    <2>1. phase # "loaded"
      BY <1>3 DEF PackageNext, ParseDocument, CheckPlacement, OpenComponent,
                  FileFails, ResolveAssets, Construct
    <2>2. run'.error = Idle.error
      BY <1>1, <1>3, <2>1 DEF session, SessionInv
    <2>3. QED
      BY <2>2, EndsHarmlessly DEF Harmless
  <1>4. CASE StepStage
    <2>1. /\ run'.error \in {Idle.error} \cup Refusals
          /\ run'.at \in {"idle", "sources"}
          /\ run'.at = "sources" => run'.error = Idle.error
      BY <1>4, StepStageIs
    <2>2. QED
      BY <2>1, EndsHarmlessly DEF Harmless
  <1>5. CASE \/ AddSource \/ EndSources \/ PopReady \/ DropEdge \/ NextPop
             \/ EndOrder \/ SkipComponent \/ BeginComponent \/ CallModel
             \/ EndComponents \/ EndPass
    <2>1. run.at # "idle"
      BY <1>5 DEF AddSource, EndSources, PopReady, DropEdge, NextPop, EndOrder,
                  SkipComponent, BeginComponent, CallModel, EndComponents,
                  EndPass, Resolved, AtComponent
    <2>2. run.error = Idle.error /\ DOMAIN run = DOMAIN Idle
      BY <1>1, <2>1 DEF FailureInv, SessionInv
    <2>3. run'.error = run.error
      <3>1. CASE EndOrder
        BY <1>1, <3>1, EndOrderKeepsOrder
      <3>2. CASE AddSource \/ EndSources \/ PopReady \/ DropEdge \/ NextPop
        BY <2>2, <3>2, IdleIs DEF AddSource, EndSources, PopReady, DropEdge, NextPop
      <3>3. CASE SkipComponent \/ BeginComponent \/ EndComponents \/ EndPass
        BY <2>2, <3>3, IdleIs DEF SkipComponent, BeginComponent, EndComponents, EndPass
      <3>4. CASE CallModel
        BY <2>2, <3>4, IdleIs, CallModelIs
      <3>5. QED
        BY <1>5, <3>1, <3>2, <3>3, <3>4
    <2>4. QED
      BY <2>2, <2>3, EndsHarmlessly DEF Harmless
  <1>6. CASE StopPass
    <2>1. run'.error = "stopped" /\ run'.at = "idle"
      BY <1>1, <1>6, IdleIs DEF StopPass, FailPass, SessionInv
    <2>2. QED
      BY <2>1, EndsHarmlessly DEF Harmless
  <1>10. CASE PublishGuided
    <2>1. run.error = Idle.error
      BY <1>1, <1>10 DEF PublishGuided, FailureInv
    <2>2. \/ run'.error = Idle.error
          \/ run'.error = "no guidance" /\ run'.at = "idle"
      BY <1>1, <1>10, <2>1, PublishGuidedIs
    <2>3. QED
      BY <2>2, EndsHarmlessly DEF Harmless, Refusals
  <1>7. CASE Steps
    BY <1>1, <1>5, <1>6, <1>7, <1>10, ResolveKeepsFailure, StoreKeepsFailure DEF Steps
  <1>8. CASE Reset \/ (phase = "loaded" /\ \E name \in Stages : ReleaseStage(name))
    <2>1. UNCHANGED package /\ run' = run /\ order' = order
      BY <1>8 DEF Reset, ReleaseStage, ordering
    <2>2. QED
      BY <1>1, <2>1, FailureKept
  <1>9. QED
    BY <1>1, <1>2, <1>3, <1>4, <1>7, <1>8 DEF Next

LEMMA SpecKeepsFailure == Spec => []FailureInv
  <1>1. DataflowInv /\ FailureInv /\ [Next]_vars => FailureInv'
    BY FailureStep DEF DataflowInv
  <1>2. QED
    BY <1>1, SpecKeepsDataflow, FailureInit, PTL DEF Spec

(***************************************************************************)
(* No stage of an accepted package has a dataflow cycle: counting incoming *)
(* connections orders all its components, with the source of each          *)
(* connection before its target.  (TopologicalComponents.)                 *)
(***************************************************************************)
THEOREM StagesAreAlwaysOrdered == Spec => []StagesAlwaysOrdered
  <1>1. FailureInv => run.error # "dataflow cycle"
    BY DEF FailureInv, Impossible
  <1>2. OrderInv /\ FailureInv => StagesAlwaysOrdered
    BY <1>1, RunsInOrder DEF StageOrdered, StagesAlwaysOrdered
  <1>3. DataflowInv => OrderInv
    BY DEF DataflowInv
  <1>4. QED
    BY <1>2, <1>3, SpecKeepsDataflow, SpecKeepsFailure, PTL

(***************************************************************************)
(* No pass over an accepted package meets an input with no source at all,  *)
(* or a state no recurrent connection carries; an output that is missing   *)
(* belongs to a component the stage does not run in this pass.             *)
(* (ResolveInput, FindStateConnection, RunStageComponents.)                *)
(***************************************************************************)
THEOREM EveryInputsSourceIsThere == Spec => []EveryInputHasASource
  <1>1. FailureInv => EveryInputHasASource
    BY DEF FailureInv, EveryInputHasASource, Impossible, SourceWasLeftOut, Port
  <1>2. QED
    BY <1>1, SpecKeepsFailure, PTL

-----------------------------------------------------------------------------
(* What a model is called with *)

\* When every input is resolved, so is the target of any connection that enters
\* the current component.
LEMMA TargetIsResolved ==
    ASSUME DataflowInv, Resolved, NEW i \in DOMAIN manifest.connections,
           manifest.connections[i].target[1] = Component.name
    PROVE  \E k \in 1..(run.port - 1) :
              /\ manifest.connections[i].target = Port(k)
              /\ TakenFrom(Port(k))
              /\ Port(k) \notin run.copied
                   <=> BindsDirectly(endpoint_values[Port(k)],
                                     opened[Component.name].input_device)
  <1>1. /\ LoadInv /\ SessionInv /\ OrderInv /\ PassInv /\ AtComponent
        /\ run.at = "components" /\ run.port = Len(Component.inputs) + 1
    BY DEF DataflowInv, Resolved, AtComponent
  <1>2. /\ Len(Component.inputs) \in Nat
        /\ DOMAIN Component.inputs = 1..Len(Component.inputs)
        /\ \A e : (IsPair(e) /\ IsInput(manifest, e) /\ e[1] = Component.name)
                     => \E k \in DOMAIN Component.inputs : e = Port(k)
    BY <1>1, CurrentIs
  <1>3. /\ IsPair(manifest.connections[i].target)
        /\ IsInput(manifest, manifest.connections[i].target)
    BY <1>1, StageIs DEF Sound, ConnectionsSound
  <1>4. PICK k \in DOMAIN Component.inputs : manifest.connections[i].target = Port(k)
    BY <1>2, <1>3
  <1>5. k \in 1..(run.port - 1) /\ run.port > 0
    BY <1>1, <1>2, <1>4
  <1>6. ResolvedInv
    BY <1>1, <1>5 DEF PassInv
  <1>7. QED
    BY <1>4, <1>5, <1>6 DEF ResolvedInv

(***************************************************************************)
(* A model runs on what the components of the same stage produced in this  *)
(* pass, never on what an earlier pass left behind.  (ResolveInput,        *)
(* RunStageComponents.)                                                    *)
(***************************************************************************)
THEOREM InputsAreOfThisPass == Spec => []InputsOfThisPass
  <1>1. ASSUME DataflowInv, Resolved, NEW i \in DOMAIN manifest.connections,
               Followed(manifest.connections[i])
        PROVE  /\ endpoint_values[manifest.connections[i].target].from
                    = manifest.connections[i].source
               /\ endpoint_values[manifest.connections[i].target].pass = run.pass
    <2> DEFINE c == manifest.connections[i]
    <2>1. /\ LoadInv /\ SessionInv /\ OrderInv /\ PassInv /\ AtComponent
      BY <1>1 DEF DataflowInv, Resolved
    <2>2. /\ c.target[1] = Component.name /\ ~c.recurrent
          /\ StageOwns(Stage, c.source[1]) /\ Carries(c)
          /\ c.source[1] \notin run.skipped /\ c.target \notin run.overrides
          /\ FindInputState(c.target) \cap DOMAIN state_values = {}
      BY <1>1 DEF Followed, OrdersStage
    <2>3. PICK k \in 1..(run.port - 1) : c.target = Port(k) /\ TakenFrom(Port(k))
      BY <1>1, <2>2, TargetIsResolved
    <2>4. i \in FindConnection(c.target, FALSE)
      BY <2>2 DEF FindConnection
    <2>5. /\ endpoint_values[c.source].from = c.source
          /\ endpoint_values[c.source].pass = run.pass
      BY <2>1, <2>2, SourceHasRun
    <2>6. TakenFrom(c.target)
      BY <2>3
    <2>7. /\ endpoint_values[c.target].from = endpoint_values[c.source].from
          /\ endpoint_values[c.target].pass = endpoint_values[c.source].pass
      BY <2>2, <2>4, <2>6 DEF TakenFrom
    <2>8. QED
      BY <2>5, <2>7
  <1>2. DataflowInv => InputsOfThisPass
    BY <1>1 DEF InputsOfThisPass, ToSet
  <1>3. QED
    BY <1>2, SpecKeepsDataflow, PTL

(***************************************************************************)
(* A generated input is computed from what its source input carries in the *)
(* same call.  (Generate, KnownValue.)                                     *)
(***************************************************************************)
THEOREM GeneratedInputsAreOfThisPass == Spec => []GeneratedFromThisPass
  <1>1. ASSUME DataflowInv, Resolved,
               NEW i \in DOMAIN Component.inputs, NEW j \in DOMAIN Component.inputs,
               i < j
        PROVE  GeneratedFrom(Port(i), Port(j))
    <2>1. /\ LoadInv /\ SessionInv /\ OrderInv /\ PassInv /\ AtComponent
          /\ run.at = "components" /\ run.port = Len(Component.inputs) + 1
      BY <1>1 DEF DataflowInv, Resolved, AtComponent
    <2>2. /\ Len(Component.inputs) \in Nat
          /\ DOMAIN Component.inputs = 1..Len(Component.inputs)
      BY <2>1, CurrentIs
    <2>3. j \in 1..(run.port - 1) /\ i \in 1..(j - 1) /\ run.port > 0
      BY <1>1, <2>1, <2>2
    <2>4. ResolvedInv
      BY <2>1, <2>3 DEF PassInv
    <2>5. QED
      BY <2>3, <2>4 DEF ResolvedInv
  <1>2. DataflowInv => GeneratedFromThisPass
    BY <1>1 DEF GeneratedFromThisPass, GeneratedFrom, Port
  <1>3. QED
    BY <1>2, SpecKeepsDataflow, PTL

-----------------------------------------------------------------------------
(* Where a connection leaves its tensor *)

LEMMA DirectIs ==
    ASSUME NEW c, NEW source, NEW target, NEW source_shape, NEW target_shape,
           ClassifyTransfer(c, source, target, source_shape, target_shape) = "direct"
    PROVE  /\ source # Unknown /\ source = target
           /\ ~HostTransform(c, source_shape, target_shape)
  <1> DEFINE host == HostTransform(c, source_shape, target_shape)
             moves == ~host /\ source # target
  <1>1. "direct" =
           CASE Unknown \in {source, target} -> "unknown"
             [] Unknown \notin {source, target} /\ host -> "host_transform"
             [] source # Unknown /\ ~host /\ source = target -> "direct"
             [] target # Unknown /\ moves /\ source = "cpu" -> "upload"
             [] source # Unknown /\ moves /\ target = "cpu" -> "download"
             [] OTHER -> "host_staged"
    BY DEF ClassifyTransfer
  <1>2. source # Unknown /\ target # Unknown /\ ~host
    BY <1>1
  <1>3. source = target
    BY <1>1, <1>2
  <1>4. QED
    BY <1>2, <1>3

LEMMA DirectConnection ==
    ASSUME LoadInv, phase = "loaded", NEW i \in DOMAIN plan, plan[i] = "direct"
    PROVE  LET c == manifest.connections[i]
           IN /\ i \in DOMAIN manifest.connections
              /\ Forwards(c)
              /\ opened[c.source[1]].output_device # Unknown
              /\ opened[c.source[1]].output_device = opened[c.target[1]].input_device
  <1> DEFINE c == manifest.connections[i]
  <1>1. plan = BuildTransferPlan(manifest, opened)
    BY DEF LoadInv
  <1>2. i \in DOMAIN manifest.connections
    BY <1>1 DEF BuildTransferPlan
  <1>3. ClassifyTransfer(c, opened[c.source[1]].output_device,
                            opened[c.target[1]].input_device,
                            OutputSpec(manifest, c.source).shape,
                            InputSpec(manifest, c.target).shape) = "direct"
    BY <1>1, <1>2 DEF BuildTransferPlan
  <1> HIDE DEF c
  <1>4. QED
    BY <1>2, <1>3, DirectIs DEF Forwards, c

\* A tensor that came over a connection that forwards it is where the model that
\* made it left it.
LEMMA ArrivesOnItsDevice ==
    ASSUME DataflowInv, Resolved, NEW i \in DOMAIN manifest.connections,
           CameOver(manifest.connections[i]), Forwards(manifest.connections[i])
    PROVE  OnItsDevice(endpoint_values[manifest.connections[i].target],
                       manifest.connections[i].source)
  <1> DEFINE c == manifest.connections[i]
             v == endpoint_values[c.target]
             state == FindInputState(c.target) \cap DOMAIN state_values
  <1>1. /\ LoadInv /\ SessionInv /\ OrderInv /\ PassInv /\ DevicesInv
        /\ AtComponent /\ run.at = "components"
    BY DEF DataflowInv, Resolved, AtComponent
  <1>2. /\ phase = "loaded" /\ Sound(manifest)
    BY <1>1, StageIs
  <1>3. /\ IsOutput(manifest, c.source) /\ c.source # Host
    BY <1>2 DEF Sound, ConnectionsSound
  <1>4. /\ c.target[1] = Component.name
        /\ c.recurrent = (state # {})
        /\ ~IsInput(manifest, c.source)
        /\ v.from = c.source
    BY DEF CameOver
  <1>5. TakenFrom(c.target)
    BY <1>4, TargetIsResolved
  <1>6. c.target \notin run.overrides
    BY <1>3, <1>4, <1>5 DEF TakenFrom
  <1>7. OutputsInv /\ StatesInv
    BY <1>1, <1>2, DevicesAre
  <1>8. CASE state # {}
    <2>1. PICK s \in state : TRUE
      BY <1>8
    <2>2. v = state_values[s]
      BY <1>5, <1>6, <2>1 DEF TakenFrom
    <2>3. PICK j \in DOMAIN manifest.states :
             manifest.states[j].input = c.target /\ manifest.states[j].name = s
      BY <2>1 DEF FindInputState
    <2>4. CarriedState(j, i)
      BY <1>7, <2>3 DEF StatesInv
    <2>5. c.recurrent
      BY <1>4, <1>8
    <2>6. QED
      BY <1>4, <2>1, <2>2, <2>3, <2>4, <2>5 DEF CarriedState
  <1>9. CASE state = {}
    <2>1. i \in FindConnection(c.target, FALSE)
      BY <1>4, <1>9 DEF FindConnection
    <2>2. /\ c.source \in DOMAIN endpoint_values
          /\ SamePlace(v, endpoint_values[c.source])
          /\ Carries(c) => v.from = endpoint_values[c.source].from
      BY <1>5, <1>6, <1>9, <2>1 DEF TakenFrom
    <2>3. OnItsDevice(endpoint_values[c.source], c.source)
      BY <1>3, <1>4, <1>7, <2>2, ForwardsCarries DEF OutputsInv, Own
    <2>4. QED
      BY <2>2, <2>3 DEF OnItsDevice, SamePlace
  <1>10. QED
    BY <1>8, <1>9

(***************************************************************************)
(* A tensor that came over a connection the plan calls direct is bound to  *)
(* the model without a copy through the host.  (ClassifyTransfer against   *)
(* OrtBackend::Run and ApplyConnection.)                                   *)
(***************************************************************************)
THEOREM ThePlanIsHonest == Spec => []PlanIsHonest
  <1>1. ASSUME DataflowInv, Resolved, NEW i \in DOMAIN plan, plan[i] = "direct",
               CameOver(manifest.connections[i]),
               \/ Asked.options.device_outputs
               \/ opened[manifest.connections[i].source[1]].output_device = "cpu"
        PROVE  manifest.connections[i].target \notin run.copied
    <2> DEFINE c == manifest.connections[i]
               device == opened[c.source[1]].output_device
    <2>1. LoadInv /\ phase = "loaded"
      BY <1>1, StageIs DEF DataflowInv, Resolved, AtComponent
    <2>2. /\ i \in DOMAIN manifest.connections /\ Forwards(c)
          /\ device # Unknown /\ device = opened[c.target[1]].input_device
      BY <1>1, <2>1, DirectConnection
    <2>3. OnItsDevice(endpoint_values[c.target], c.source)
      BY <1>1, <2>2, ArrivesOnItsDevice
    <2>4. OutputDevice(c.source[1]) = device
      BY <1>1, <2>2 DEF OutputDevice
    <2>5. c.target[1] = Component.name
      BY <1>1 DEF CameOver
    <2>6. BindsDirectly(endpoint_values[c.target], opened[Component.name].input_device)
      BY <2>2, <2>3, <2>4, <2>5 DEF BindsDirectly, OnItsDevice
    <2>7. PICK k \in 1..(run.port - 1) :
             /\ c.target = Port(k)
             /\ Port(k) \notin run.copied
                  <=> BindsDirectly(endpoint_values[Port(k)],
                                    opened[Component.name].input_device)
      BY <1>1, <2>2, <2>5, TargetIsResolved
    <2>8. QED
      BY <2>6, <2>7
  <1>2. DataflowInv => PlanIsHonest
    BY <1>1 DEF PlanIsHonest
  <1>3. QED
    BY <1>2, SpecKeepsDataflow, PTL

-----------------------------------------------------------------------------
(* Where sessions run *)

LEMMA NormalSetIs ==
    ASSUME NEW names, NEW n
    PROVE  n \in NormalSet(names) <=> \E i \in DOMAIN names : n = Normal(names[i])
  BY DEF NormalSet, ToSet

LEMMA CpuIsNormal == Normal("cpu") = "cpu"
  BY ProviderNamesAssumption DEF Normal, Field

LEMMA SessionProviderIs ==
    ASSUME NEW options, NEW p \in ToSet(SessionProviders(options))
    PROVE  p \in NormalSet(options.providers)
  <1>1. PICK i \in DOMAIN options.providers : p = Normal(options.providers[i])
    BY DEF SessionProviders, Restrict, ToSet
  <1>2. QED
    BY <1>1, NormalSetIs

\* Every provider of a resolved order is one the caller or the manifest named,
\* or the processor where neither named any.
LEMMA ResolvedProviderIs ==
    ASSUME NEW requested, NEW placement, NEW component,
           NEW p \in NormalSet(ResolvedProviders(requested, placement, component))
    PROVE  LET own == OwnProviders(placement, component.name)
               asked == NormalSet(own) \cup NormalSet(requested.providers)
               preferred == NormalSet(component.preferred_execution_providers)
           IN \/ preferred = {} /\ (p \in asked \/ p = "cpu")
              \/ p \in preferred
              \/ p = "cpu" /\ p \in asked
              \/ placement.allow_unpreferred_providers /\ p \in NormalSet(own)
  <1> DEFINE own == OwnProviders(placement, component.name)
             asked == NormalSet(own) \cup NormalSet(requested.providers)
             list == component.preferred_execution_providers
             preferred == NormalSet(list)
             explicit == ExplicitProviders(requested, placement, component.name)
             candidates == IF explicit # <<>> THEN explicit ELSE list
             bypass == placement.allow_unpreferred_providers /\ own # <<>>
             chosen == Filtered(candidates, component, bypass)
             kept == IF "cpu" \in NormalSet(explicit) \ NormalSet(chosen)
                     THEN Put(chosen, Len(candidates) + 1, "cpu") ELSE chosen
  <1>1. \/ ResolvedProviders(requested, placement, component) = kept
        \/ /\ ResolvedProviders(requested, placement, component) = <<"cpu">>
           /\ list = <<>>
    BY DEF ResolvedProviders
  <1>2. /\ NormalSet(explicit) \subseteq asked
        /\ own # <<>> => explicit = own
    BY DEF ExplicitProviders
  <1>3. CASE ResolvedProviders(requested, placement, component) = <<"cpu">>
               /\ list = <<>>
    <2>1. p = "cpu"
      <3>1. PICK i \in DOMAIN <<"cpu">> : p = Normal(<<"cpu">>[i])
        BY <1>3, NormalSetIs
      <3>2. <<"cpu">>[i] = "cpu"
        BY <3>1
      <3>3. QED
        BY <3>1, <3>2, CpuIsNormal
    <2>2. preferred = {}
      BY <1>3 DEF NormalSet, ToSet
    <2>3. QED
      BY <2>1, <2>2
  <1>4. ASSUME NEW i \in DOMAIN chosen, p = Normal(chosen[i])
        PROVE  \/ preferred = {} /\ p \in asked
               \/ p \in preferred
               \/ placement.allow_unpreferred_providers /\ p \in NormalSet(own)
    <2>1. /\ i \in DOMAIN candidates /\ chosen[i] = candidates[i]
          /\ bypass \/ preferred = {} \/ Normal(candidates[i]) \in preferred
      BY <1>4 DEF Filtered, Restrict
    <2>2. p \in NormalSet(candidates)
      BY <1>4, <2>1, NormalSetIs
    <2> HIDE DEF chosen, kept, preferred, candidates, asked, own, explicit
    <2>3. CASE bypass
      <3>1. own # <<>> /\ explicit = own /\ candidates = own
        BY <1>2, <2>3 DEF candidates
      <3>2. QED
        BY <2>2, <2>3, <3>1
    <2>4. CASE preferred = {}
      <3>1. candidates = explicit \/ candidates = list
        BY DEF candidates
      <3>2. p \in asked
        BY <1>2, <2>2, <2>4, <3>1 DEF preferred
      <3>3. QED
        BY <2>4, <3>2
    <2>5. QED
      BY <1>4, <2>1, <2>3, <2>4
  <1>5. CASE ResolvedProviders(requested, placement, component) = kept
    <2> HIDE DEF preferred, asked, own, explicit, candidates, chosen
    <2>1. PICK i \in DOMAIN kept : p = Normal(kept[i])
      BY <1>5, NormalSetIs
    <2>2. CASE kept = chosen
      <3> HIDE DEF kept
      <3>1. i \in DOMAIN chosen /\ p = Normal(chosen[i])
        BY <2>1, <2>2
      <3>2. QED
        BY <1>4, <3>1 DEF preferred, asked, own
    <2>3. CASE /\ kept = Put(chosen, Len(candidates) + 1, "cpu")
               /\ "cpu" \in NormalSet(explicit)
      <3>1. CASE i = Len(candidates) + 1
        <4>1. kept[i] = "cpu"
          BY <2>3, <3>1 DEF Put
        <4>2. p = "cpu" /\ p \in asked
          BY <1>2, <2>1, <2>3, <4>1, CpuIsNormal
        <4>3. QED
          BY <4>2 DEF asked, own
      <3>2. CASE i # Len(candidates) + 1
        <4>1. i \in DOMAIN chosen /\ kept[i] = chosen[i]
          BY <2>1, <2>3, <3>2 DEF Put
        <4>2. QED
          BY <1>4, <2>1, <4>1 DEF preferred, asked, own
      <3>3. QED
        BY <3>1, <3>2
    <2>4. QED
      BY <2>2, <2>3 DEF kept
  <1>6. QED
    BY <1>1, <1>3, <1>5

(***************************************************************************)
(* No session runs on a provider that neither the manifest prefers nor the *)
(* caller asked for and was allowed to have.                               *)
(* (ResolveComponentRuntimeOptions, ResolveProviders.)                     *)
(***************************************************************************)
THEOREM SessionsRunOnlyWherePlaced == Spec => []SessionsRunWherePlaced
  <1>1. ASSUME LoadInv, NEW name \in DOMAIN opened,
               NEW p \in ToSet(opened[name].execution_providers)
        PROVE  LET c == FindComponent(manifest, name)
                   own == OwnProviders(Asked.placement, name)
                   asked == NormalSet(own) \cup NormalSet(Asked.options.providers)
                   preferred == NormalSet(c.preferred_execution_providers)
               IN \/ preferred = {} /\ (p \in asked \/ p = "cpu")
                  \/ p \in preferred
                  \/ p = "cpu" /\ p \in asked
                  \/ /\ Asked.placement.allow_unpreferred_providers
                     /\ p \in NormalSet(own)
    <2> DEFINE c == FindComponent(manifest, name)
               options == ResolveComponentRuntimeOptions(
                              Asked.options, Asked.placement, c)
    <2>1. opened[name].execution_providers = SessionProviders(options)
      BY <1>1 DEF LoadInv
    <2>2. options.providers = ResolvedProviders(Asked.options, Asked.placement, c)
      BY DEF ResolveComponentRuntimeOptions
    <2>3. p \in NormalSet(ResolvedProviders(Asked.options, Asked.placement, c))
      <3> HIDE DEF options
      <3>1. p \in NormalSet(options.providers)
        BY <1>1, <2>1, SessionProviderIs
      <3>2. QED
        BY <2>2, <3>1
    <2>4. c.name = name
      <3>1. phase \in Accepted
        BY <1>1 DEF LoadInv
      <3>2. PICK k \in 0..Len(manifest.components) : OpenedUpTo(k)
        BY <1>1, <3>1 DEF LoadInv
      <3>3. IsArray(manifest.components)
        BY <1>1, <3>1, LoadedIsSound DEF Sound, ComponentsSound
      <3>4. PICK i \in DOMAIN manifest.components : manifest.components[i].name = name
        BY <1>1, <3>2, <3>3, ArrayIs DEF OpenedUpTo
      <3>5. HasComponent(manifest, name)
        BY <3>4 DEF HasComponent, Named
      <3>6. QED
        BY <3>5, FoundComponent
    <2> HIDE DEF c, options
    <2>5. QED
      BY <2>3, <2>4, ResolvedProviderIs DEF c
  <1>2. LoadInv => SessionsRunWherePlaced
    BY <1>1 DEF SessionsRunWherePlaced
  <1>3. DataflowInv => LoadInv
    BY DEF DataflowInv
  <1>4. QED
    BY <1>2, <1>3, SpecKeepsDataflow, PTL

=============================================================================
