------------------------- MODULE PodMutationProofs -------------------------
(***************************************************************************)
(* Proofs of what a patch does to a pod, for any containers, whatever the  *)
(* pod went through before.                                                *)
(***************************************************************************)
EXTENDS PodMutationProperties, TLAPS

Variables == [name : Names, by : {"user", "webhook"} \cup Methods]
ContainerType == [env : Seq(Variables), mounts : Seq(Volumes)]

NamesOf(env) == {env[i].name : i \in DOMAIN env}

\* A variable is defined once, and by one who may.
WellDefined(env) ==
    /\ \A i, j \in DOMAIN env : env[i].name = env[j].name => i = j
    /\ \A i \in DOMAIN env : env[i].by \in Definers(env[i].name)

\* Variables of these names that a patch may add to a container: it has none
\* of them, and what a method defines is of the method that is configured.
Addition(env, new, names) ==
    /\ new \in Seq(Variables)
    /\ WellDefined(new)
    /\ NamesOf(new) \subseteq names
    /\ NamesOf(new) \cap NamesOf(env) = {}
    /\ \A i \in DOMAIN new : new[i].by \in Methods => new[i].by = config.method

\* An environment after additions of these names.
Grown(env, more, names) ==
    /\ more \in Seq(Variables)
    /\ WellDefined(more)
    /\ Len(env) <= Len(more)
    /\ \A i \in 1..Len(env) : more[i] = env[i]
    /\ \A i \in (Len(env) + 1)..Len(more) :
          /\ more[i].name \in names
          /\ more[i].by \in Methods => more[i].by = config.method

PodType == [volumes : Seq(Volumes), containers : [Containers -> ContainerType]]

\* A pod whose containers and volumes are such as the API server takes.
Proper(p) ==
    /\ p \in PodType
    /\ IsInjective(p.volumes)
    /\ \A k \in Containers : /\ WellDefined(p.containers[k].env)
                             /\ IsInjective(p.containers[k].mounts)

SettingsOK ==
    /\ skip \subseteq Containers /\ region \in BOOLEAN /\ changed \in BOOLEAN
    /\ config \in Configs \cup {None}

IInv == Proper(pod) /\ SettingsOK /\ TokenIsMounted

-----------------------------------------------------------------------------
(* Sequences of variables.                                                 *)

\* The elements of a concatenation.
LEMMA ConcatFacts ==
    ASSUME NEW S, NEW s \in Seq(S), NEW t \in Seq(S)
    PROVE  /\ s \o t \in Seq(S) /\ Len(s \o t) = Len(s) + Len(t)
           /\ DOMAIN (s \o t) = 1..(Len(s) + Len(t))
           /\ \A i \in 1..Len(s) : (s \o t)[i] = s[i]
           /\ \A i \in (Len(s) + 1)..(Len(s) + Len(t)) :
                 i - Len(s) \in DOMAIN t /\ (s \o t)[i] = t[i - Len(s)]
           /\ \A j \in DOMAIN t : Len(s) + j \in DOMAIN (s \o t) /\ (s \o t)[Len(s) + j] = t[j]
           /\ t = <<>> => s \o t = s
OBVIOUS

\* Its names are those of both.
LEMMA ConcatNames ==
    ASSUME NEW s \in Seq(Variables), NEW t \in Seq(Variables)
    PROVE  NamesOf(s \o t) = NamesOf(s) \cup NamesOf(t)
<1>1. ASSUME NEW i \in DOMAIN (s \o t)
      PROVE  (s \o t)[i].name \in NamesOf(s) \cup NamesOf(t)
  <2>1. CASE i <= Len(s)
    BY <2>1, ConcatFacts DEF NamesOf
  <2>2. CASE ~(i <= Len(s))
    BY <2>2, ConcatFacts DEF NamesOf
  <2> QED
    BY <2>1, <2>2
<1>2. ASSUME NEW i \in DOMAIN s
      PROVE  i \in DOMAIN (s \o t) /\ (s \o t)[i] = s[i]
  BY ConcatFacts
<1>3. ASSUME NEW j \in DOMAIN t
      PROVE  Len(s) + j \in DOMAIN (s \o t) /\ (s \o t)[Len(s) + j] = t[j]
  BY ConcatFacts
<1>4. NamesOf(s \o t) \subseteq NamesOf(s) \cup NamesOf(t)
  BY <1>1 DEF NamesOf
<1>5. NamesOf(s) \subseteq NamesOf(s \o t)
  BY <1>2, Zenon DEF NamesOf
<1>6. NamesOf(t) \subseteq NamesOf(s \o t)
  BY <1>3, Zenon DEF NamesOf
<1> QED
  BY <1>4, <1>5, <1>6

\* Pairs that are whole in both are whole in it.
LEMMA ConcatPairs ==
    ASSUME NEW s \in Seq(Variables), NEW t \in Seq(Variables), NEW m,
           WholePair(s, m), WholePair(t, m)
    PROVE  WholePair(s \o t, m)
<1>1. ASSUME NEW i \in DOMAIN (s \o t), (s \o t)[i].by = m
      PROVE  (\E j \in DOMAIN s : s[j].by = m) \/ (\E j \in DOMAIN t : t[j].by = m)
  <2>1. CASE i <= Len(s)
    BY <1>1, <2>1, ConcatFacts
  <2>2. CASE ~(i <= Len(s))
    BY <1>1, <2>2, ConcatFacts
  <2> QED
    BY <2>1, <2>2
<1>2. ToSet(s) \subseteq ToSet(s \o t)
  <2>1. ASSUME NEW i \in DOMAIN s PROVE i \in DOMAIN (s \o t) /\ (s \o t)[i] = s[i]
    BY ConcatFacts
  <2> QED
    BY <2>1, Zenon DEF ToSet
<1>3. ToSet(t) \subseteq ToSet(s \o t)
  <2>1. ASSUME NEW j \in DOMAIN t
        PROVE  Len(s) + j \in DOMAIN (s \o t) /\ (s \o t)[Len(s) + j] = t[j]
    BY ConcatFacts
  <2> QED
    BY <2>1, Zenon DEF ToSet
<1> QED
  BY <1>1, <1>2, <1>3 DEF WholePair

\* An addition of other names makes the environment grow.
LEMMA GrowStep ==
    ASSUME NEW env \in Seq(Variables), NEW more, NEW new, NEW M, NEW N,
           Grown(env, more, M), Addition(more, new, N)
    PROVE  Grown(env, more \o new, M \cup N)
<1> DEFINE all == more \o new
<1>1. /\ all \in Seq(Variables) /\ Len(all) = Len(more) + Len(new)
      /\ \A i \in 1..Len(more) : all[i] = more[i]
      /\ \A i \in (Len(more) + 1)..Len(all) :
            i - Len(more) \in DOMAIN new /\ all[i] = new[i - Len(more)]
  BY ConcatFacts DEF Grown, Addition
<1>2. more \in Seq(Variables) /\ new \in Seq(Variables) /\ WellDefined(more) /\ WellDefined(new)
      /\ NamesOf(new) \cap NamesOf(more) = {}
  BY DEF Grown, Addition
<1>0. \A a \in DOMAIN more, b \in DOMAIN new : more[a].name # new[b].name
  BY <1>2 DEF NamesOf
<1> HIDE DEF all
<1>3. ASSUME NEW i \in DOMAIN all, NEW j \in DOMAIN all, all[i].name = all[j].name
      PROVE  i = j
  <2>1. CASE i <= Len(more) /\ j <= Len(more)
    BY <1>1, <1>2, <1>3, <2>1 DEF WellDefined
  <2>2. CASE i > Len(more) /\ j > Len(more)
    <3>1. i - Len(more) = j - Len(more)
      BY <1>1, <1>2, <1>3, <2>2 DEF WellDefined
    <3> QED
      BY <1>1, <1>2, <3>1
  <2>3. CASE i <= Len(more) /\ j > Len(more)
    <3>1. /\ i \in DOMAIN more /\ all[i] = more[i]
          /\ j - Len(more) \in DOMAIN new /\ all[j] = new[j - Len(more)]
      BY <1>1, <1>2, <2>3
    <3> QED
      BY <1>0, <1>3, <3>1
  <2>4. CASE i > Len(more) /\ j <= Len(more)
    <3>1. /\ j \in DOMAIN more /\ all[j] = more[j]
          /\ i - Len(more) \in DOMAIN new /\ all[i] = new[i - Len(more)]
      BY <1>1, <1>2, <2>4
    <3> QED
      BY <1>0, <1>3, <3>1
  <2> QED
    BY <1>1, <1>2, <2>1, <2>2, <2>3, <2>4
<1>4. ASSUME NEW i \in DOMAIN all
      PROVE  all[i].by \in Definers(all[i].name)
  <2>1. CASE i <= Len(more)
    <3>1. i \in DOMAIN more /\ all[i] = more[i]
      BY <1>1, <1>2, <2>1
    <3>2. more[i].by \in Definers(more[i].name)
      BY <1>2, <3>1 DEF WellDefined
    <3> QED
      BY <3>1, <3>2, Zenon
  <2>2. CASE i > Len(more)
    <3>1. i - Len(more) \in DOMAIN new /\ all[i] = new[i - Len(more)]
      BY <1>1, <1>2, <2>2
    <3>2. new[i - Len(more)].by \in Definers(new[i - Len(more)].name)
      BY <1>2, <3>1 DEF WellDefined
    <3> QED
      BY <3>1, <3>2, Zenon
  <2> QED
    BY <1>1, <1>2, <2>1, <2>2
<1>5. Len(env) <= Len(all) /\ \A i \in 1..Len(env) : all[i] = env[i]
  BY <1>1, <1>2 DEF Grown
<1>6. ASSUME NEW i \in (Len(env) + 1)..Len(all)
      PROVE  /\ all[i].name \in M \cup N
             /\ all[i].by \in Methods => all[i].by = config.method
  <2>1. CASE i <= Len(more)
    <3>1. all[i] = more[i] /\ i \in (Len(env) + 1)..Len(more)
      BY <1>1, <1>2, <2>1
    <3>2. more[i].name \in M /\ (more[i].by \in Methods => more[i].by = config.method)
      BY <3>1 DEF Grown
    <3> QED
      BY <3>1, <3>2
  <2>2. CASE i > Len(more)
    <3> DEFINE j == i - Len(more)
    <3>1. j \in DOMAIN new /\ all[i] = new[j]
      BY <1>1, <1>2, <2>2
    <3> HIDE DEF j
    <3>2. new[j].name \in N /\ (new[j].by \in Methods => new[j].by = config.method)
      BY <3>1 DEF Addition, NamesOf
    <3> QED
      BY <3>1, <3>2
  <2> QED
    BY <1>1, <1>2, <2>1, <2>2
<1>7. WellDefined(all)
  BY <1>3, <1>4 DEF WellDefined
<1>8. Grown(env, all, M \cup N)
  BY <1>1, <1>5, <1>6, <1>7 DEF Grown
<1> QED
  BY <1>8 DEF all

\* Names that the container has none of are still missing after additions of
\* other names.
LEMMA AdditionAfter ==
    ASSUME NEW env \in Seq(Variables), NEW more, NEW new, NEW M, NEW N,
           Grown(env, more, M), Addition(env, new, N), M \cap N = {}
    PROVE  Addition(more, new, N)
<1>1. ASSUME NEW i \in DOMAIN more
      PROVE  more[i].name \in NamesOf(env) \cup M
  <2>1. CASE i <= Len(env)
    BY <2>1 DEF Grown, NamesOf
  <2>2. CASE i > Len(env)
    BY <2>2 DEF Grown
  <2> QED
    BY <2>1, <2>2 DEF Grown
<1>2. NamesOf(more) \subseteq NamesOf(env) \cup M
  BY <1>1 DEF NamesOf
<1> QED
  BY <1>2 DEF Addition

\* What a container defines.
LEMMA DefinesNames ==
    ASSUME NEW c, NEW names
    PROVE  Defines(c, names) <=> NamesOf(c.env) \cap names # {}
BY DEF Defines, NamesOf

\* Adding nothing is an addition.
LEMMA NoAddition ==
    ASSUME NEW env, NEW names
    PROVE  Addition(env, <<>>, names)
BY DEF Addition, WellDefined, NamesOf

\* So is a variable, or two, that the container has none of.
LEMMA OneAddition ==
    ASSUME NEW env, NEW a \in Variables, a.name \notin NamesOf(env),
           a.by \in Definers(a.name), a.by \in Methods => a.by = config.method
    PROVE  Addition(env, <<a>>, {a.name})
<1>1. <<a>> \in Seq(Variables) /\ DOMAIN <<a>> = {1} /\ <<a>>[1] = a
  OBVIOUS
<1>2. NamesOf(<<a>>) = {a.name}
  BY <1>1 DEF NamesOf
<1>3. WellDefined(<<a>>)
  BY <1>1, Zenon DEF WellDefined
<1> QED
  BY <1>1, <1>2, <1>3 DEF Addition

LEMMA TwoAdditions ==
    ASSUME NEW env, NEW a \in Variables, NEW b \in Variables,
           a.name # b.name, {a.name, b.name} \cap NamesOf(env) = {},
           a.by \in Definers(a.name), b.by \in Definers(b.name),
           a.by \in Methods => a.by = config.method, b.by \in Methods => b.by = config.method
    PROVE  Addition(env, <<a, b>>, {a.name, b.name})
<1>1. <<a, b>> \in Seq(Variables) /\ DOMAIN <<a, b>> = {1, 2} /\ <<a, b>>[1] = a /\ <<a, b>>[2] = b
  OBVIOUS
<1>2. NamesOf(<<a, b>>) = {a.name, b.name}
  BY <1>1 DEF NamesOf
<1>3. WellDefined(<<a, b>>)
  <2>1. \A i, j \in {1, 2} : <<a, b>>[i].name = <<a, b>>[j].name => i = j
    BY <1>1
  <2>2. \A i \in {1, 2} : <<a, b>>[i].by \in Definers(<<a, b>>[i].name)
    BY <1>1, Zenon
  <2> QED
    BY <1>1, <2>1, <2>2, Zenon DEF WellDefined
<1> QED
  BY <1>1, <1>2, <1>3 DEF Addition

-----------------------------------------------------------------------------
(* The patch of one container.                                             *)

\* Each kind of variable is added where the container has none of its kind.
LEMMA Additions ==
    ASSUME NEW c, config \in Configs
    PROVE  /\ Addition(c.env, RegionalSTSEnv(c), {STSName})
           /\ Addition(c.env, RegionEnv(c), RegionNames)
           /\ Addition(c.env, MethodEnv(c), CredentialNames(config.method))
<1>1. "webhook" \notin Methods /\ config.method \in Methods
  BY DEF Methods, Configs
<1>2. Addition(c.env, RegionalSTSEnv(c), {STSName})
  <2>1. CASE config.regionalSTS /\ ~Defines(c, {STSName})
    <3> DEFINE a == Var(STSName, "webhook")
    <3>1. a \in Variables /\ a.name = STSName /\ a.by = "webhook" /\ a.by \in Definers(a.name)
      BY DEF Var, Variables, Names, STSName, Definers, WebIdentityNames, CredentialsNames, RegionNames
    <3>2. a.name \notin NamesOf(c.env)
      BY <2>1, <3>1, DefinesNames
    <3>3. RegionalSTSEnv(c) = <<a>>
      BY <2>1 DEF RegionalSTSEnv
    <3> HIDE DEF a
    <3>4. Addition(c.env, <<a>>, {a.name})
      BY <1>1, <3>1, <3>2, OneAddition
    <3> QED
      BY <3>1, <3>3, <3>4
  <2>2. CASE ~(config.regionalSTS /\ ~Defines(c, {STSName}))
    BY <2>2, NoAddition DEF RegionalSTSEnv
  <2> QED
    BY <2>1, <2>2
<1>3. Addition(c.env, RegionEnv(c), RegionNames)
  <2>1. CASE region /\ ~Defines(c, RegionNames)
    <3> DEFINE a == Var("AWS_DEFAULT_REGION", "webhook")
               b == Var("AWS_REGION", "webhook")
    <3>1. /\ a \in Variables /\ b \in Variables /\ a.name # b.name
          /\ {a.name, b.name} = RegionNames /\ a.by = "webhook" /\ b.by = "webhook"
          /\ a.by \in Definers(a.name) /\ b.by \in Definers(b.name)
      BY DEF Var, Variables, Names, STSName, Definers, WebIdentityNames, CredentialsNames, RegionNames
    <3>2. {a.name, b.name} \cap NamesOf(c.env) = {}
      BY <2>1, <3>1, DefinesNames
    <3>3. RegionEnv(c) = <<a, b>>
      BY <2>1 DEF RegionEnv
    <3> HIDE DEF a, b
    <3>4. Addition(c.env, <<a, b>>, {a.name, b.name})
      BY <1>1, <3>1, <3>2, TwoAdditions
    <3> QED
      BY <3>1, <3>3, <3>4
  <2>2. CASE ~(region /\ ~Defines(c, RegionNames))
    BY <2>2, NoAddition DEF RegionEnv
  <2> QED
    BY <2>1, <2>2
<1>4. Addition(c.env, MethodEnv(c), CredentialNames(config.method))
  <2>1. CASE ~Defines(c, CredentialNames(config.method))
    <3> DEFINE web == config.method = "sts_web_identity"
               a == IF web THEN Var("AWS_ROLE_ARN", config.method)
                    ELSE Var("AWS_CONTAINER_CREDENTIALS_FULL_URI", config.method)
               b == IF web THEN Var("AWS_WEB_IDENTITY_TOKEN_FILE", config.method)
                    ELSE Var("AWS_CONTAINER_AUTHORIZATION_TOKEN_FILE", config.method)
    <3>1. /\ a \in Variables /\ b \in Variables /\ a.name # b.name
          /\ {a.name, b.name} = CredentialNames(config.method)
          /\ a.by = config.method /\ b.by = config.method
          /\ a.by \in Definers(a.name) /\ b.by \in Definers(b.name)
      BY <1>1 DEF Var, Variables, Names, STSName, Definers, WebIdentityNames, CredentialsNames,
                  RegionNames, CredentialNames, Methods
    <3>2. {a.name, b.name} \cap NamesOf(c.env) = {}
      BY <2>1, <3>1, DefinesNames
    <3>3. MethodEnv(c) = <<a, b>>
      BY <2>1 DEF MethodEnv
    <3> HIDE DEF a, b
    <3>4. Addition(c.env, <<a, b>>, {a.name, b.name})
      BY <1>1, <3>1, <3>2, TwoAdditions
    <3> QED
      BY <3>1, <3>3, <3>4
  <2>2. CASE Defines(c, CredentialNames(config.method))
    BY <2>2, NoAddition DEF MethodEnv
  <2> QED
    BY <2>1, <2>2
<1> QED
  BY <1>2, <1>3, <1>4

\* The variables of a patched container: the old ones in their places, and
\* new ones, each once.
LEMMA EnvFacts ==
    ASSUME NEW c \in ContainerType, WellDefined(c.env), config \in Configs
    PROVE  LET env == c.env \o RegionalSTSEnv(c) \o RegionEnv(c) \o MethodEnv(c) IN
           /\ Grown(c.env, env, Names)
           /\ NamesOf(env) = NamesOf(c.env) \cup NamesOf(RegionalSTSEnv(c))
                             \cup NamesOf(RegionEnv(c)) \cup NamesOf(MethodEnv(c))
           /\ Len(env) = Len(c.env) + Len(RegionalSTSEnv(c)) + Len(RegionEnv(c))
                         + Len(MethodEnv(c))
<1> DEFINE a == RegionalSTSEnv(c)
           b == RegionEnv(c)
           d == MethodEnv(c)
           A == {STSName}
           B == RegionNames
           D == CredentialNames(config.method)
<1>1. c.env \in Seq(Variables)
  BY DEF ContainerType
<1>2. Addition(c.env, a, A) /\ Addition(c.env, b, B) /\ Addition(c.env, d, D)
  BY Additions
<1>3. /\ A \cap B = {} /\ (A \cup B) \cap D = {}
      /\ ({} \cup A) \cup B \cup D \subseteq Names
  BY DEF STSName, RegionNames, CredentialNames, WebIdentityNames, CredentialsNames, Names
<1>4. Grown(c.env, c.env, {})
  BY <1>1 DEF Grown
<1> HIDE DEF a, b, d, A, B, D
<1>5. Grown(c.env, c.env \o a, {} \cup A)
  BY <1>1, <1>2, <1>4, GrowStep
<1>6. Grown(c.env, (c.env \o a) \o b, ({} \cup A) \cup B)
  <2>1. Addition(c.env \o a, b, B)
    BY <1>1, <1>2, <1>3, <1>5, AdditionAfter
  <2> QED
    BY <1>1, <1>5, <2>1, GrowStep
<1>7. Grown(c.env, ((c.env \o a) \o b) \o d, ({} \cup A) \cup B \cup D)
  <2>1. Addition((c.env \o a) \o b, d, D)
    BY <1>1, <1>2, <1>3, <1>6, AdditionAfter
  <2> QED
    BY <1>1, <1>6, <2>1, GrowStep
<1>8. Grown(c.env, ((c.env \o a) \o b) \o d, Names)
  BY <1>3, <1>7 DEF Grown
<1>9. /\ a \in Seq(Variables) /\ b \in Seq(Variables) /\ d \in Seq(Variables)
      /\ c.env \o a \in Seq(Variables) /\ (c.env \o a) \o b \in Seq(Variables)
  BY <1>2, <1>5, <1>6 DEF Addition, Grown
<1>10. NamesOf(((c.env \o a) \o b) \o d)
          = NamesOf(c.env) \cup NamesOf(a) \cup NamesOf(b) \cup NamesOf(d)
  <2>1. NamesOf(c.env \o a) = NamesOf(c.env) \cup NamesOf(a)
    BY <1>1, <1>9, ConcatNames
  <2>2. NamesOf((c.env \o a) \o b) = NamesOf(c.env \o a) \cup NamesOf(b)
    BY <1>9, ConcatNames
  <2>3. NamesOf(((c.env \o a) \o b) \o d) = NamesOf((c.env \o a) \o b) \cup NamesOf(d)
    BY <1>9, ConcatNames
  <2> QED
    BY <2>1, <2>2, <2>3
<1>11. Len(((c.env \o a) \o b) \o d) = Len(c.env) + Len(a) + Len(b) + Len(d)
  BY <1>1, <1>9
<1> QED
  BY <1>8, <1>10, <1>11 DEF a, b, d

\* Of the variables that a patch adds, a method's come in pairs.
LEMMA PatchPairs ==
    ASSUME NEW c \in ContainerType, config \in Configs, NEW m \in Methods,
           WholePair(c.env, m)
    PROVE  WholePair(AddEnvToContainer(c).env, m)
<1> DEFINE a == RegionalSTSEnv(c)
           b == RegionEnv(c)
           d == MethodEnv(c)
<1>1. /\ c.env \in Seq(Variables) /\ a \in Seq(Variables)
      /\ b \in Seq(Variables) /\ d \in Seq(Variables)
  BY Additions DEF ContainerType, Addition
<1>2. "webhook" \notin Methods /\ config.method \in Methods
  BY DEF Methods, Configs
<1>3. WholePair(a, m)
  <2>1. \A i \in DOMAIN a : a[i].by = "webhook"
    BY DEF RegionalSTSEnv, Var
  <2> QED
    BY <1>2, <2>1 DEF WholePair
<1>4. WholePair(b, m)
  <2>1. \A i \in DOMAIN b : b[i].by = "webhook"
    BY DEF RegionEnv, Var
  <2> QED
    BY <1>2, <2>1 DEF WholePair
<1>5. WholePair(d, m)
  <2> DEFINE M == config.method
  <2>1. CASE Defines(c, CredentialNames(M))
    BY <2>1 DEF MethodEnv, WholePair
  <2>2. ASSUME NEW x, NEW y, d = <<Var(x, M), Var(y, M)>>, CredentialNames(M) = {x, y}
        PROVE  WholePair(d, m)
    <3>1. DOMAIN d = {1, 2} /\ d[1] = Var(x, M) /\ d[2] = Var(y, M)
      BY <2>2
    <3>2. d[1].by = M /\ d[2].by = M
      BY <3>1 DEF Var
    <3>3. Var(x, M) \in ToSet(d) /\ Var(y, M) \in ToSet(d)
      BY <3>1, Zenon DEF ToSet
    <3> QED
      BY <2>2, <3>1, <3>2, <3>3 DEF WholePair
  <2>3. CASE ~Defines(c, CredentialNames(M)) /\ M = "sts_web_identity"
    <3>1. /\ d = <<Var("AWS_ROLE_ARN", M), Var("AWS_WEB_IDENTITY_TOKEN_FILE", M)>>
          /\ CredentialNames(M) = {"AWS_ROLE_ARN", "AWS_WEB_IDENTITY_TOKEN_FILE"}
      BY <2>3 DEF MethodEnv, CredentialNames, WebIdentityNames
    <3> QED
      BY <2>2, <3>1, Zenon
  <2>4. CASE ~Defines(c, CredentialNames(M)) /\ M # "sts_web_identity"
    <3>1. /\ d = <<Var("AWS_CONTAINER_CREDENTIALS_FULL_URI", M),
                   Var("AWS_CONTAINER_AUTHORIZATION_TOKEN_FILE", M)>>
          /\ CredentialNames(M) = {"AWS_CONTAINER_CREDENTIALS_FULL_URI",
                                   "AWS_CONTAINER_AUTHORIZATION_TOKEN_FILE"}
      BY <2>4 DEF MethodEnv, CredentialNames, CredentialsNames
    <3> QED
      BY <2>2, <3>1, Zenon
  <2> QED
    BY <2>1, <2>3, <2>4
<1> HIDE DEF a, b, d
<1>6. WholePair(((c.env \o a) \o b) \o d, m)
  <2>1. c.env \o a \in Seq(Variables) /\ (c.env \o a) \o b \in Seq(Variables)
    BY <1>1, ConcatFacts
  <2>2. WholePair(c.env \o a, m)
    BY <1>1, <1>3, ConcatPairs
  <2>3. WholePair((c.env \o a) \o b, m)
    BY <1>1, <1>4, <2>1, <2>2, ConcatPairs
  <2> QED
    BY <1>1, <1>5, <2>1, <2>3, ConcatPairs
<1>7. AddEnvToContainer(c).env \in {c.env, ((c.env \o a) \o b) \o d}
  BY DEF AddEnvToContainer, a, b, d
<1> QED
  BY <1>6, <1>7

\* An element that a sequence does not have can go to its end ...
LEMMA InjectiveAppend ==
    ASSUME NEW S, NEW s \in Seq(S), NEW v \in S, v \notin ToSet(s)
    PROVE  /\ Append(s, v) \in Seq(S)
           /\ Append(s, v) # s
           /\ ToSet(Append(s, v)) = ToSet(s) \cup {v}
           /\ IsInjective(s) => IsInjective(Append(s, v))
<1> DEFINE a == Append(s, v)
<1>1. /\ a \in Seq(S) /\ DOMAIN a = 1..(Len(s) + 1) /\ a[Len(s) + 1] = v
      /\ \A i \in 1..Len(s) : a[i] = s[i]
  OBVIOUS
<1>2. DOMAIN s = 1..Len(s) /\ Len(s) \in Nat
  OBVIOUS
<1>3. a # s
  <2>1. Len(a) = Len(s) + 1
    OBVIOUS
  <2> HIDE DEF a
  <2> QED
    BY <1>2, <2>1
<1> HIDE DEF a
<1>4. \A i \in DOMAIN s : s[i] # v
  BY DEF ToSet
<1>5. ToSet(a) = ToSet(s) \cup {v}
  <2>1. \A i \in DOMAIN a : a[i] = v \/ \E j \in DOMAIN s : a[i] = s[j]
    BY <1>1, <1>2
  <2>2. \A j \in DOMAIN s : j \in DOMAIN a /\ a[j] = s[j]
    BY <1>1, <1>2
  <2>3. Len(s) + 1 \in DOMAIN a /\ a[Len(s) + 1] = v
    BY <1>1, <1>2
  <2> QED
    BY <2>1, <2>2, <2>3, Zenon DEF ToSet
<1>6. ASSUME IsInjective(s) PROVE IsInjective(a)
  BY <1>1, <1>2, <1>4, <1>6 DEF IsInjective
<1> QED
  BY <1>1, <1>3, <1>5, <1>6 DEF a

\* ... and to its front.
LEMMA InjectivePrepend ==
    ASSUME NEW S, NEW s \in Seq(S), NEW v \in S, v \notin ToSet(s)
    PROVE  /\ <<v>> \o s \in Seq(S)
           /\ <<v>> \o s # s
           /\ ToSet(<<v>> \o s) = ToSet(s) \cup {v}
           /\ IsInjective(s) => IsInjective(<<v>> \o s)
<1> DEFINE b == <<v>> \o s
<1>1. /\ b \in Seq(S) /\ DOMAIN b = 1..(Len(s) + 1) /\ b[1] = v
      /\ \A i \in 2..(Len(s) + 1) : b[i] = s[i - 1]
      /\ \A i \in 1..Len(s) : b[i + 1] = s[i]
  OBVIOUS
<1>2. DOMAIN s = 1..Len(s) /\ Len(s) \in Nat
  OBVIOUS
<1>3. b # s
  <2>1. Len(b) = Len(s) + 1
    OBVIOUS
  <2> HIDE DEF b
  <2> QED
    BY <1>2, <2>1
<1> HIDE DEF b
<1>4. \A i \in DOMAIN s : s[i] # v
  BY DEF ToSet
<1>5. ToSet(b) = ToSet(s) \cup {v}
  <2>1. \A i \in DOMAIN b : b[i] = v \/ \E j \in DOMAIN s : b[i] = s[j]
    BY <1>1, <1>2
  <2>2. \A j \in DOMAIN s : \E i \in DOMAIN b : b[i] = s[j]
    <3>1. ASSUME NEW j \in DOMAIN s PROVE j + 1 \in DOMAIN b /\ b[j + 1] = s[j]
      BY <1>1, <1>2
    <3> QED
      BY <3>1, Zenon
  <2>3. \E i \in DOMAIN b : b[i] = v
    BY <1>1, <1>2
  <2>4. ToSet(b) \subseteq ToSet(s) \cup {v}
    BY <2>1 DEF ToSet
  <2>5. ToSet(s) \cup {v} \subseteq ToSet(b)
    BY <2>2, <2>3 DEF ToSet
  <2> QED
    BY <2>4, <2>5
<1>6. ASSUME IsInjective(s) PROVE IsInjective(b)
  <2>1. ASSUME NEW i \in DOMAIN b, NEW j \in DOMAIN b, b[i] = b[j] PROVE i = j
    <3>1. \A k \in DOMAIN b : k = 1 \/ (k - 1 \in DOMAIN s /\ b[k] = s[k - 1])
      BY <1>1, <1>2
    <3>2. CASE i = 1 \/ j = 1
      BY <1>1, <1>4, <2>1, <3>1, <3>2
    <3>3. CASE i # 1 /\ j # 1
      <4>1. i - 1 = j - 1
        BY <1>6, <2>1, <3>1, <3>3 DEF IsInjective
      <4> QED
        BY <1>1, <1>2, <4>1
    <3> QED
      BY <3>2, <3>3
  <2> QED
    BY <2>1 DEF IsInjective
<1> QED
  BY <1>1, <1>3, <1>5, <1>6 DEF b

\* The patch defines what the configuration asks for, unless it is there.
LEMMA Covered ==
    ASSUME NEW c, config \in Configs
    PROVE  /\ config.regionalSTS => STSName \in NamesOf(c.env) \cup NamesOf(RegionalSTSEnv(c))
           /\ region => RegionNames \cap (NamesOf(c.env) \cup NamesOf(RegionEnv(c))) # {}
           /\ CredentialNames(config.method)
                 \cap (NamesOf(c.env) \cup NamesOf(MethodEnv(c))) # {}
<1>1. ASSUME NEW x, NEW y
      PROVE  x.name \in NamesOf(<<x>>) /\ x.name \in NamesOf(<<x, y>>)
  <2>1. 1 \in DOMAIN <<x>> /\ <<x>>[1] = x /\ 1 \in DOMAIN <<x, y>> /\ <<x, y>>[1] = x
    OBVIOUS
  <2> QED
    BY <2>1, Zenon DEF NamesOf
<1>2. \A n : Var(n, "webhook").name = n /\ Var(n, config.method).name = n
  BY DEF Var
<1>3. config.regionalSTS => STSName \in NamesOf(c.env) \cup NamesOf(RegionalSTSEnv(c))
  BY <1>1, <1>2, DefinesNames DEF RegionalSTSEnv
<1>4. region => RegionNames \cap (NamesOf(c.env) \cup NamesOf(RegionEnv(c))) # {}
  BY <1>1, <1>2, DefinesNames DEF RegionEnv, RegionNames
<1>5. CASE Defines(c, CredentialNames(config.method))
  BY <1>3, <1>4, <1>5, DefinesNames
<1>6. CASE ~Defines(c, CredentialNames(config.method)) /\ config.method = "sts_web_identity"
  <2>1. "AWS_ROLE_ARN" \in NamesOf(MethodEnv(c))
    BY <1>1, <1>2, <1>6 DEF MethodEnv
  <2> QED
    BY <1>3, <1>4, <1>6, <2>1 DEF CredentialNames, WebIdentityNames
<1>7. CASE ~Defines(c, CredentialNames(config.method)) /\ config.method # "sts_web_identity"
  <2>1. "AWS_CONTAINER_CREDENTIALS_FULL_URI" \in NamesOf(MethodEnv(c))
    BY <1>1, <1>2, <1>7 DEF MethodEnv
  <2> QED
    BY <1>3, <1>4, <1>7, <2>1 DEF CredentialNames, CredentialsNames
<1> QED
  BY <1>5, <1>6, <1>7

\* What the patch of a container does and does not do to it.
AddsSomething(c) ==
    /\ ~HasNecessaryEnv(c)
    /\ \/ RegionalSTSEnv(c) \o RegionEnv(c) \o MethodEnv(c) # <<>>
       \/ VolumeName(config.method) \notin ToSet(c.mounts)

\* The mounts of a patched container.
LEMMA MountFacts ==
    ASSUME NEW c \in ContainerType, config \in Configs, IsInjective(c.mounts)
    PROVE  /\ MountsOf(c) \in Seq(Volumes) /\ IsInjective(MountsOf(c))
           /\ ToSet(MountsOf(c)) = ToSet(c.mounts) \cup {VolumeName(config.method)}
           /\ MountsOf(c) # c.mounts <=> VolumeName(config.method) \notin ToSet(c.mounts)
<1> DEFINE v == VolumeName(config.method)
<1>1. v \in Volumes
  BY DEF Volumes, Configs
<1>2. c.mounts \in Seq(Volumes)
  BY DEF ContainerType
<1>3. CASE v \in ToSet(c.mounts)
  BY <1>2, <1>3 DEF MountsOf
<1>4. CASE v \notin ToSet(c.mounts)
  <2>1. MountsOf(c) = Append(c.mounts, v)
    BY <1>4 DEF MountsOf
  <2> HIDE DEF v
  <2>2. /\ Append(c.mounts, v) \in Seq(Volumes) /\ IsInjective(Append(c.mounts, v))
        /\ Append(c.mounts, v) # c.mounts
        /\ ToSet(Append(c.mounts, v)) = ToSet(c.mounts) \cup {v}
    BY <1>1, <1>2, <1>4, InjectiveAppend
  <2> QED
    BY <1>4, <2>1, <2>2 DEF v
<1> QED
  BY <1>3, <1>4

\* It is a container again, with nothing twice.
LEMMA ContainerKept ==
    ASSUME NEW c \in ContainerType, WellDefined(c.env), IsInjective(c.mounts),
           config \in Configs
    PROVE  LET n == AddEnvToContainer(c) IN
           /\ n \in ContainerType /\ WellDefined(n.env) /\ IsInjective(n.mounts)
           /\ Len(c.env) <= Len(n.env) /\ \A i \in 1..Len(c.env) : n.env[i] = c.env[i]
           /\ ToSet(c.mounts) \subseteq ToSet(n.mounts)
           /\ \A i \in (Len(c.env) + 1)..Len(n.env) : n.env[i].by \in Methods =>
                 n.env[i].by = config.method /\ VolumeName(config.method) \in ToSet(n.mounts)
<1>1. CASE HasNecessaryEnv(c)
  <2>1. AddEnvToContainer(c) = c
    BY <1>1 DEF AddEnvToContainer
  <2>2. c.env \in Seq(Variables)
    BY DEF ContainerType
  <2> QED
    BY <2>1, <2>2
<1>2. CASE ~HasNecessaryEnv(c)
  <2> DEFINE env == c.env \o RegionalSTSEnv(c) \o RegionEnv(c) \o MethodEnv(c)
  <2>1. AddEnvToContainer(c) = [env |-> env, mounts |-> MountsOf(c)]
    BY <1>2 DEF AddEnvToContainer
  <2>2. Grown(c.env, env, Names)
    BY EnvFacts
  <2> HIDE DEF env
  <2>3. env \in Seq(Variables) /\ MountsOf(c) \in Seq(Volumes)
    BY <2>2, MountFacts DEF Grown
  <2>4. AddEnvToContainer(c) \in ContainerType
    BY <2>1, <2>3 DEF ContainerType
  <2>5. AddEnvToContainer(c).env = env /\ AddEnvToContainer(c).mounts = MountsOf(c)
    BY <2>1
  <2> QED
    BY <2>2, <2>4, <2>5, MountFacts DEF Grown
<1> QED
  BY <1>1, <1>2

\* It differs from the container just where the patch adds something.
LEMMA ContainerChanges ==
    ASSUME NEW c \in ContainerType, WellDefined(c.env), IsInjective(c.mounts),
           config \in Configs
    PROVE  AddEnvToContainer(c) # c <=> AddsSomething(c)
<1>1. CASE HasNecessaryEnv(c)
  BY <1>1 DEF AddEnvToContainer, AddsSomething
<1>2. CASE ~HasNecessaryEnv(c)
  <2> DEFINE a == RegionalSTSEnv(c)
             b == RegionEnv(c)
             d == MethodEnv(c)
             env == c.env \o a \o b \o d
  <2>1. AddEnvToContainer(c) = [env |-> env, mounts |-> MountsOf(c)]
    BY <1>2 DEF AddEnvToContainer
  <2>2. c.env \in Seq(Variables) /\ c = [env |-> c.env, mounts |-> c.mounts]
    BY DEF ContainerType
  <2>3. a \in Seq(Variables) /\ b \in Seq(Variables) /\ d \in Seq(Variables)
    BY Additions DEF Addition
  <2> HIDE DEF a, b, d
  <2>4. env # c.env <=> a \o b \o d # <<>>
    <3>1. Len(env) = Len(c.env) + Len(a) + Len(b) + Len(d)
      BY <2>2, <2>3
    <3>2. Len(a \o b \o d) = Len(a) + Len(b) + Len(d)
      BY <2>3
    <3>3. CASE Len(a) = 0 /\ Len(b) = 0 /\ Len(d) = 0
      <4>1. a = <<>> /\ b = <<>> /\ d = <<>>
        BY <2>3, <3>3
      <4> QED
        BY <2>2, <4>1
    <3>4. CASE ~(Len(a) = 0 /\ Len(b) = 0 /\ Len(d) = 0)
      <4>1. Len(env) # Len(c.env) /\ Len(a \o b \o d) # 0
        BY <2>2, <2>3, <3>1, <3>2, <3>4
      <4> HIDE DEF env
      <4> QED
        BY <4>1
    <3> QED
      BY <3>3, <3>4
  <2>5. AddEnvToContainer(c) # c <=> env # c.env \/ MountsOf(c) # c.mounts
    BY <2>1, <2>2
  <2> QED
    BY <1>2, <2>4, <2>5, MountFacts DEF AddsSomething, a, b, d
<1> QED
  BY <1>1, <1>2

\* A patched container is left as it is.
LEMMA ContainerIsStable ==
    ASSUME NEW c \in ContainerType, WellDefined(c.env), IsInjective(c.mounts),
           config \in Configs
    PROVE  ~AddsSomething(AddEnvToContainer(c))
<1>1. CASE HasNecessaryEnv(c)
  BY <1>1 DEF AddEnvToContainer, AddsSomething
<1>2. CASE ~HasNecessaryEnv(c)
  <2> DEFINE n == AddEnvToContainer(c)
  <2>1. n = [env |-> c.env \o RegionalSTSEnv(c) \o RegionEnv(c) \o MethodEnv(c),
             mounts |-> MountsOf(c)]
    BY <1>2 DEF AddEnvToContainer
  <2>2. NamesOf(n.env) = NamesOf(c.env) \cup NamesOf(RegionalSTSEnv(c))
                         \cup NamesOf(RegionEnv(c)) \cup NamesOf(MethodEnv(c))
    BY <2>1, EnvFacts
  <2>3. VolumeName(config.method) \in ToSet(n.mounts)
    BY <2>1, MountFacts
  <2> HIDE DEF n
  <2>4. /\ config.regionalSTS => Defines(n, {STSName})
        /\ region => Defines(n, RegionNames)
        /\ Defines(n, CredentialNames(config.method))
    BY <2>2, Covered, DefinesNames
  <2>5. RegionalSTSEnv(n) = <<>> /\ RegionEnv(n) = <<>> /\ MethodEnv(n) = <<>>
    BY <2>4 DEF RegionalSTSEnv, RegionEnv, MethodEnv
  <2>6. RegionalSTSEnv(n) \o RegionEnv(n) \o MethodEnv(n) = <<>>
    BY <2>5
  <2> QED
    BY <2>3, <2>6 DEF AddsSomething, n
<1> QED
  BY <1>1, <1>2

-----------------------------------------------------------------------------
(* The patch of a pod, and what happens to it in between.                  *)

\* The projected volume is there once.
LEMMA VolumeFacts ==
    ASSUME NEW p, p.volumes \in Seq(Volumes), IsInjective(p.volumes), config \in Configs
    PROVE  /\ VolumesOf(p) \in Seq(Volumes) /\ IsInjective(VolumesOf(p))
           /\ ToSet(VolumesOf(p)) = ToSet(p.volumes) \cup {VolumeName(config.method)}
           /\ VolumesOf(p) # p.volumes <=> VolumeName(config.method) \notin ToSet(p.volumes)
<1> DEFINE v == VolumeName(config.method)
<1>1. v \in Volumes
  BY DEF Volumes, Configs
<1>2. CASE v \in ToSet(p.volumes)
  BY <1>2 DEF VolumesOf
<1>3. CASE v \notin ToSet(p.volumes)
  <2>1. VolumesOf(p) = <<v>> \o p.volumes
    BY <1>3 DEF VolumesOf
  <2> HIDE DEF v
  <2>2. /\ <<v>> \o p.volumes \in Seq(Volumes) /\ IsInjective(<<v>> \o p.volumes)
        /\ <<v>> \o p.volumes # p.volumes
        /\ ToSet(<<v>> \o p.volumes) = ToSet(p.volumes) \cup {v}
    BY <1>1, <1>3, InjectivePrepend
  <2> QED
    BY <1>3, <2>1, <2>2 DEF v
<1> QED
  BY <1>2, <1>3

\* A patch makes a proper pod of a proper pod.
LEMMA PatchedIsProper ==
    ASSUME NEW p, Proper(p), config \in Configs
    PROVE  Proper(Patched(p))
<1> DEFINE q == Patched(p)
<1>1. /\ q.volumes = VolumesOf(p)
      /\ q = [volumes |-> q.volumes, containers |-> q.containers]
      /\ q.containers = [k \in Containers |-> IF k \in skip THEN p.containers[k]
                                             ELSE AddEnvToContainer(p.containers[k])]
  BY DEF Patched
<1>2. VolumesOf(p) \in Seq(Volumes) /\ IsInjective(VolumesOf(p))
  BY VolumeFacts DEF Proper, PodType
<1> HIDE DEF q
<1>3. ASSUME NEW k \in Containers
      PROVE  /\ q.containers[k] \in ContainerType
             /\ WellDefined(q.containers[k].env) /\ IsInjective(q.containers[k].mounts)
  <2>1. p.containers[k] \in ContainerType /\ WellDefined(p.containers[k].env)
        /\ IsInjective(p.containers[k].mounts)
    BY DEF Proper, PodType
  <2>2. CASE k \in skip
    BY <1>1, <2>1, <2>2
  <2>3. CASE k \notin skip
    <3>1. q.containers[k] = AddEnvToContainer(p.containers[k])
      BY <1>1, <2>3
    <3> QED
      BY <2>1, <3>1, ContainerKept
  <2> QED
    BY <2>2, <2>3
<1>4. q.containers \in [Containers -> ContainerType]
  BY <1>1, <1>3
<1>5. q \in PodType
  BY <1>1, <1>2, <1>4 DEF PodType
<1>6. Proper(q)
  BY <1>1, <1>2, <1>3, <1>5 DEF Proper
<1> QED
  BY <1>6 DEF q

\* The report says whether the patch changes the pod.
LEMMA ReportOfPatch ==
    ASSUME NEW p, Proper(p), config \in Configs
    PROVE  ReportsChange(p) <=> Patched(p) # p
<1> DEFINE q == Patched(p)
           conts == [k \in Containers |-> IF k \in skip THEN p.containers[k]
                                         ELSE AddEnvToContainer(p.containers[k])]
<1>1. q = [volumes |-> VolumesOf(p), containers |-> conts]
  BY DEF Patched
<1>2. p = [volumes |-> p.volumes, containers |-> p.containers]
      /\ p.containers \in [Containers -> ContainerType]
  BY DEF Proper, PodType
<1>3. conts # p.containers <=>
          \E k \in Containers \ skip : AddEnvToContainer(p.containers[k]) # p.containers[k]
  BY <1>2
<1>4. \A k \in Containers \ skip :
          AddEnvToContainer(p.containers[k]) # p.containers[k] <=> AddsSomething(p.containers[k])
  BY <1>2, ContainerChanges DEF Proper
<1>5. ReportsChange(p) <=>
          \/ \E k \in Containers \ skip : AddsSomething(p.containers[k])
          \/ VolumeName(config.method) \notin ToSet(p.volumes)
  BY DEF ReportsChange, AddsSomething
<1>6. VolumesOf(p) # p.volumes <=> VolumeName(config.method) \notin ToSet(p.volumes)
  BY VolumeFacts DEF Proper, PodType
<1> HIDE DEF conts
<1>7. q # p <=> VolumesOf(p) # p.volumes \/ conts # p.containers
  BY <1>1, <1>2
<1> QED
  BY <1>3, <1>4, <1>5, <1>6, <1>7

\* A patched pod is left as it is.
LEMMA PatchedIsStable ==
    ASSUME NEW p, Proper(p), config \in Configs
    PROVE  Patched(Patched(p)) = Patched(p) /\ ~ReportsChange(Patched(p))
<1> DEFINE q == Patched(p)
<1>1. /\ q.volumes = VolumesOf(p)
      /\ \A k \in Containers \ skip : q.containers[k] = AddEnvToContainer(p.containers[k])
  BY DEF Patched
<1>2. VolumeName(config.method) \in ToSet(q.volumes)
  <2>1. ToSet(VolumesOf(p)) = ToSet(p.volumes) \cup {VolumeName(config.method)}
    BY VolumeFacts DEF Proper, PodType
  <2> QED
    BY <1>1, <2>1
<1>3. Proper(q)
  BY PatchedIsProper
<1> HIDE DEF q
<1>4. \A k \in Containers \ skip : ~AddsSomething(q.containers[k])
  <2> SUFFICES ASSUME NEW k \in Containers \ skip PROVE ~AddsSomething(q.containers[k])
    OBVIOUS
  <2>1. p.containers[k] \in ContainerType /\ WellDefined(p.containers[k].env)
        /\ IsInjective(p.containers[k].mounts)
    BY DEF Proper, PodType
  <2> QED
    BY <1>1, <2>1, ContainerIsStable
<1>5. ~ReportsChange(q)
  BY <1>2, <1>4 DEF ReportsChange, AddsSomething
<1> QED
  BY <1>3, <1>5, ReportOfPatch DEF q

\* The invariant holds of a pod that has not come by yet.
LEMMA InitInv == Init => IInv
<1> SUFFICES ASSUME Init PROVE IInv
  OBVIOUS
<1>1. pod.volumes = <<>> /\ pod \in PodType
      /\ \A k \in Containers : pod.containers[k].env = <<>> /\ pod.containers[k].mounts = <<>>
  <2>1. ASSUME NEW e, NEW r \in [env : {e}, mounts : {e}]
        PROVE  r = [env |-> e, mounts |-> e]
    OBVIOUS
  <2>2. ASSUME NEW e, NEW S, NEW p \in [volumes : {e}, containers : S]
        PROVE  /\ p = [volumes |-> e, containers |-> p.containers]
               /\ p.volumes = e /\ p.containers \in S
    OBVIOUS
  <2>3. /\ pod = [volumes |-> <<>>, containers |-> pod.containers]
        /\ pod.volumes = <<>>
        /\ pod.containers \in [Containers -> [env : {<<>>}, mounts : {<<>>}]]
    BY <2>2, Zenon DEF Init
  <2>4. ASSUME NEW k \in Containers
        PROVE  pod.containers[k] = [env |-> <<>>, mounts |-> <<>>]
    <3>1. pod.containers[k] \in [env : {<<>>}, mounts : {<<>>}]
      BY <2>3, Zenon
    <3> QED
      BY <2>1, <3>1, Zenon
  <2>5. [env |-> <<>>, mounts |-> <<>>] \in ContainerType /\ <<>> \in Seq(Volumes)
    BY DEF ContainerType
  <2>6. pod.containers \in [Containers -> ContainerType]
    BY <2>3, <2>4, <2>5
  <2>7. ASSUME NEW v \in Seq(Volumes), NEW f \in [Containers -> ContainerType]
        PROVE  [volumes |-> v, containers |-> f] \in PodType
    BY DEF PodType
  <2>8. pod \in PodType
    BY <2>3, <2>5, <2>6, <2>7, Zenon
  <2> QED
    BY <2>3, <2>4, <2>8
<1>2. WellDefined(<<>>) /\ IsInjective(<<>>)
  BY DEF WellDefined, IsInjective
<1>3. Proper(pod) /\ TokenIsMounted
  BY <1>1, <1>2 DEF Proper, TokenIsMounted, WholePair
<1> QED
  BY <1>3 DEF Init, ContainersToSkip, IInv, SettingsOK

\* A patch mounts the token that it defines.
LEMMA PatchInv ==
    ASSUME IInv, MutatePod
    PROVE  IInv'
<1>1. pod' = Patched(pod) /\ config \in Configs /\ UNCHANGED <<skip, region, config>>
  BY DEF MutatePod, IInv, SettingsOK
<1>2. Proper(pod)'
  BY <1>1, PatchedIsProper DEF IInv, Proper
<1>3. SettingsOK'
  BY <1>1 DEF MutatePod, IInv, SettingsOK, ReportsChange
<1>4. ASSUME NEW k \in Containers, NEW m \in Methods,
             \E i \in DOMAIN pod'.containers[k].env : pod'.containers[k].env[i].by = m
      PROVE  VolumeName(m) \in ToSet(pod'.containers[k].mounts) \cap ToSet(pod'.volumes)
  <2> DEFINE c == pod.containers[k]
             n == pod'.containers[k]
  <2>1. PICK i \in DOMAIN n.env : n.env[i].by = m
    BY <1>4
  <2>2. c \in ContainerType /\ WellDefined(c.env) /\ IsInjective(c.mounts)
    BY DEF IInv, Proper, PodType
  <2>3. n = IF k \in skip THEN c ELSE AddEnvToContainer(c)
    BY <1>1 DEF Patched
  <2>4. ToSet(pod'.volumes) = ToSet(pod.volumes) \cup {VolumeName(config.method)}
    <3>1. pod'.volumes = VolumesOf(pod)
      BY <1>1 DEF Patched
    <3>2. pod.volumes \in Seq(Volumes) /\ IsInjective(pod.volumes)
      BY DEF IInv, Proper, PodType
    <3> QED
      BY <1>1, <3>1, <3>2, VolumeFacts
  <2>5. (\E j \in DOMAIN c.env : c.env[j].by = m) =>
            VolumeName(m) \in ToSet(c.mounts) \cap ToSet(pod.volumes)
    BY DEF IInv, TokenIsMounted
  <2> HIDE DEF c, n
  <2>6. CASE k \in skip
    BY <2>1, <2>3, <2>4, <2>5, <2>6 DEF n
  <2>7. CASE k \notin skip
    <3>1. /\ n.env \in Seq(Variables) /\ c.env \in Seq(Variables)
          /\ \A j \in 1..Len(c.env) : n.env[j] = c.env[j]
          /\ ToSet(c.mounts) \subseteq ToSet(n.mounts)
          /\ \A j \in (Len(c.env) + 1)..Len(n.env) : n.env[j].by \in Methods =>
                n.env[j].by = config.method /\ VolumeName(config.method) \in ToSet(n.mounts)
      BY <1>1, <2>2, <2>3, <2>7, ContainerKept DEF ContainerType
    <3>2. CASE i <= Len(c.env)
      <4>1. i \in DOMAIN c.env /\ c.env[i].by = m
        BY <2>1, <3>1, <3>2
      <4> QED
        BY <2>4, <2>5, <3>1, <4>1 DEF n
    <3>3. CASE i > Len(c.env)
      <4>1. m = config.method /\ VolumeName(config.method) \in ToSet(n.mounts)
        BY <2>1, <3>1, <3>3
      <4> QED
        BY <2>4, <4>1 DEF n
    <3> QED
      BY <3>1, <3>2, <3>3
  <2> QED
    BY <2>6, <2>7 DEF n
<1>5. ASSUME NEW k \in Containers, NEW m \in Methods
      PROVE  WholePair(pod'.containers[k].env, m)
  <2>1. pod.containers[k] \in ContainerType /\ WholePair(pod.containers[k].env, m)
    BY DEF IInv, Proper, PodType, TokenIsMounted
  <2>2. pod'.containers[k] = IF k \in skip THEN pod.containers[k]
                             ELSE AddEnvToContainer(pod.containers[k])
    BY <1>1 DEF Patched
  <2> QED
    BY <1>1, <2>1, <2>2, PatchPairs
<1>6. TokenIsMounted'
  BY <1>4, <1>5 DEF TokenIsMounted
<1> QED
  BY <1>2, <1>3, <1>6 DEF IInv

\* An edit of one container leaves the others and the volumes.
LEMMA EditFacts ==
    ASSUME NEW k \in Containers, NEW n \in ContainerType, pod \in PodType,
           pod' = [pod EXCEPT !.containers = [pod.containers EXCEPT ![k] = n]]
    PROVE  /\ pod' \in PodType /\ pod'.volumes = pod.volumes
           /\ \A l \in Containers : pod'.containers[l] = IF l = k THEN n ELSE pod.containers[l]
<1>1. /\ pod.containers \in [Containers -> ContainerType] /\ pod.volumes \in Seq(Volumes)
      /\ pod = [volumes |-> pod.volumes, containers |-> pod.containers]
  BY DEF PodType
<1>2. [pod.containers EXCEPT ![k] = n] \in [Containers -> ContainerType]
  BY <1>1
<1>3. pod' = [volumes |-> pod.volumes, containers |-> [pod.containers EXCEPT ![k] = n]]
  BY <1>1
<1> QED
  BY <1>1, <1>2, <1>3 DEF PodType

\* The author defines a variable that the container does not have.
LEMMA DefineVarInv ==
    ASSUME IInv, NEW k \in Containers, NEW name \in UserNames, DefineVar(k, name)
    PROVE  IInv'
<1> DEFINE c == pod.containers[k]
           a == Var(name, "user")
           env == c.env \o <<a>>
<1>1. /\ c \in ContainerType /\ c.env \in Seq(Variables) /\ WellDefined(c.env)
      /\ IsInjective(c.mounts)
  BY DEF IInv, Proper, PodType, ContainerType
<1>2. a \in Variables /\ a.by = "user" /\ a.name = name /\ a.by \in Definers(a.name)
      /\ "user" \notin Methods
  BY NameAssumption DEF Var, Variables, Definers, Methods
<1>3. a.name \notin NamesOf(c.env)
  BY <1>2, DefinesNames DEF DefineVar
<1>4. /\ pod' = [pod EXCEPT !.containers = [pod.containers EXCEPT ![k] = [c EXCEPT !.env = env]]]
      /\ UNCHANGED <<skip, region, config, changed>>
  <2>1. ASSUME NEW S, NEW s \in Seq(S), NEW x \in S PROVE Append(s, x) = s \o <<x>>
    OBVIOUS
  <2>2. Append(c.env, a) = env
    BY <1>1, <1>2, <2>1, Zenon
  <2> QED
    BY <2>2 DEF DefineVar
<1>5. /\ env \in Seq(Variables) /\ WellDefined(env)
      /\ \A i \in DOMAIN env :
            env[i].by \in Methods => \E j \in DOMAIN c.env : c.env[j].by = env[i].by
  <2> HIDE DEF a, c
  <2>1. Addition(c.env, <<a>>, {a.name})
    BY <1>2, <1>3, OneAddition
  <2>2. Grown(c.env, c.env, {})
    BY <1>1 DEF Grown
  <2>3. Grown(c.env, env, {} \cup {a.name})
    BY <1>1, <2>1, <2>2, GrowStep
  <2>4. \A i \in DOMAIN env : env[i] = a \/ (i \in DOMAIN c.env /\ env[i] = c.env[i])
    BY <1>1, <1>2
  <2> QED
    BY <1>2, <2>3, <2>4 DEF Grown
<1>6. ASSUME NEW m \in Methods PROVE WholePair(env, m)
  <2> HIDE DEF a, c
  <2>1. WholePair(c.env, m)
    BY DEF IInv, TokenIsMounted, c
  <2>2. WholePair(<<a>>, m)
    BY <1>2 DEF WholePair
  <2>3. <<a>> \in Seq(Variables)
    BY <1>2
  <2> QED
    BY <1>1, <2>1, <2>2, <2>3, ConcatPairs
<1> HIDE DEF a, env
<1>7. /\ pod' \in PodType /\ pod'.volumes = pod.volumes
      /\ \A l \in Containers : pod'.containers[l] =
            IF l = k THEN [env |-> env, mounts |-> c.mounts] ELSE pod.containers[l]
  <2> DEFINE n == [env |-> env, mounts |-> c.mounts]
  <2>1. [c EXCEPT !.env = env] = n /\ n \in ContainerType
    BY <1>1, <1>5 DEF ContainerType
  <2> HIDE DEF n, c
  <2>2. pod \in PodType /\ pod' = [pod EXCEPT !.containers = [pod.containers EXCEPT ![k] = n]]
    BY <1>4, <2>1 DEF IInv, Proper
  <2>3. /\ pod' \in PodType /\ pod'.volumes = pod.volumes
        /\ \A l \in Containers : pod'.containers[l] = IF l = k THEN n ELSE pod.containers[l]
    BY <2>1, <2>2, EditFacts, Zenon
  <2> QED
    BY <2>3 DEF n
<1> HIDE DEF c
<1>8. Proper(pod)'
  BY <1>1, <1>5, <1>7 DEF IInv, Proper
<1>9. TokenIsMounted'
  <2>1. ASSUME NEW l \in Containers, NEW m \in Methods
        PROVE  WholePair(pod'.containers[l].env, m)
    BY <1>7, <1>6, <2>1 DEF IInv, TokenIsMounted
  <2>2. ASSUME NEW l \in Containers, NEW m \in Methods,
               \E i \in DOMAIN pod'.containers[l].env : pod'.containers[l].env[i].by = m
        PROVE  VolumeName(m) \in ToSet(pod'.containers[l].mounts) \cap ToSet(pod'.volumes)
    BY <1>5, <1>7, <2>2 DEF IInv, TokenIsMounted, c
  <2> QED
    BY <2>1, <2>2 DEF TokenIsMounted
<1> QED
  BY <1>4, <1>8, <1>9 DEF IInv, SettingsOK

\* The author adds a volume or mounts one.
LEMMA DefineVolumeInv ==
    ASSUME IInv, NEW v \in Volumes, DefineVolume(v)
    PROVE  IInv'
<1>1. /\ pod' = [pod EXCEPT !.volumes = Append(@, v)] /\ v \notin ToSet(pod.volumes)
      /\ UNCHANGED <<skip, region, config, changed>>
  BY DEF DefineVolume
<1>2. pod \in PodType /\ pod.volumes \in Seq(Volumes) /\ IsInjective(pod.volumes)
  BY DEF IInv, Proper, PodType
<1>3. /\ Append(pod.volumes, v) \in Seq(Volumes) /\ IsInjective(Append(pod.volumes, v))
      /\ ToSet(Append(pod.volumes, v)) = ToSet(pod.volumes) \cup {v}
  BY <1>1, <1>2, InjectiveAppend
<1>4. /\ pod' \in PodType /\ pod'.volumes = Append(pod.volumes, v)
      /\ pod'.containers = pod.containers
  BY <1>1, <1>2, <1>3 DEF PodType
<1>5. Proper(pod)'
  BY <1>3, <1>4 DEF IInv, Proper
<1>6. TokenIsMounted'
  BY <1>3, <1>4 DEF IInv, TokenIsMounted
<1> QED
  BY <1>1, <1>5, <1>6 DEF IInv, SettingsOK

LEMMA MountVolumeInv ==
    ASSUME IInv, NEW k \in Containers, NEW v \in Volumes, MountVolume(k, v)
    PROVE  IInv'
<1> DEFINE c == pod.containers[k]
           mounts == Append(c.mounts, v)
<1>1. /\ c \in ContainerType /\ c.mounts \in Seq(Volumes) /\ WellDefined(c.env)
      /\ IsInjective(c.mounts) /\ pod \in PodType
  BY DEF IInv, Proper, PodType, ContainerType
<1>2. /\ pod' = [pod EXCEPT !.containers = [pod.containers EXCEPT ![k] = [c EXCEPT !.mounts = mounts]]]
      /\ v \notin ToSet(c.mounts)
      /\ UNCHANGED <<skip, region, config, changed>>
  BY DEF MountVolume
<1>3. mounts \in Seq(Volumes) /\ IsInjective(mounts) /\ ToSet(mounts) = ToSet(c.mounts) \cup {v}
  <2> HIDE DEF c
  <2> QED
    BY <1>1, <1>2, InjectiveAppend
<1> HIDE DEF mounts
<1>4. /\ pod' \in PodType /\ pod'.volumes = pod.volumes
      /\ \A l \in Containers : pod'.containers[l] =
            IF l = k THEN [env |-> c.env, mounts |-> mounts] ELSE pod.containers[l]
  <2> DEFINE n == [env |-> c.env, mounts |-> mounts]
  <2>1. [c EXCEPT !.mounts = mounts] = n /\ n \in ContainerType
    BY <1>1, <1>3 DEF ContainerType
  <2> HIDE DEF n, c
  <2>2. pod' = [pod EXCEPT !.containers = [pod.containers EXCEPT ![k] = n]]
    BY <1>2, <2>1
  <2>3. /\ pod' \in PodType /\ pod'.volumes = pod.volumes
        /\ \A l \in Containers : pod'.containers[l] = IF l = k THEN n ELSE pod.containers[l]
    BY <1>1, <2>1, <2>2, EditFacts, Zenon
  <2> QED
    BY <2>3 DEF n
<1> HIDE DEF c
<1>5. Proper(pod)'
  BY <1>1, <1>3, <1>4 DEF IInv, Proper
<1>6. TokenIsMounted'
  BY <1>3, <1>4 DEF IInv, TokenIsMounted, c
<1> QED
  BY <1>2, <1>5, <1>6 DEF IInv, SettingsOK

\* Every step keeps the invariant.
LEMMA StepInv == IInv /\ [Next]_vars => IInv'
<1> SUFFICES ASSUME IInv, [Next]_vars PROVE IInv'
  OBVIOUS
<1>1. CASE \E d \in Configs \cup {None} : Configure(d)
  BY <1>1 DEF Configure, IInv, Proper, SettingsOK, TokenIsMounted
<1>2. CASE UNCHANGED vars
  BY <1>2 DEF vars, IInv, Proper, SettingsOK, TokenIsMounted
<1> QED
  BY <1>1, <1>2, PatchInv, DefineVarInv, DefineVolumeInv, MountVolumeInv DEF Next

\* The invariant holds throughout.
LEMMA Invariant == Spec => []IInv
BY InitInv, StepInv, PTL DEF Spec

-----------------------------------------------------------------------------
\* Every variable of the model keeps its type.
THEOREM TypeCorrect == Spec => []TypeOK
<1>1. IInv => TypeOK
  <2> SUFFICES ASSUME IInv PROVE TypeOK
    OBVIOUS
  <2>1. ASSUME NEW S, NEW s \in Seq(S) PROVE ToSet(s) \subseteq S
    BY DEF ToSet
  <2>2. ASSUME NEW k \in Containers
        PROVE  LET c == pod.containers[k] IN
               /\ \A i \in DOMAIN c.env : /\ c.env[i].name \in Names
                                          /\ c.env[i].by \in Definers(c.env[i].name)
               /\ ToSet(c.mounts) \subseteq Volumes
    <3>1. /\ pod.containers[k].env \in Seq(Variables) /\ WellDefined(pod.containers[k].env)
          /\ pod.containers[k].mounts \in Seq(Volumes)
      BY DEF IInv, Proper, PodType, ContainerType
    <3>2. \A i \in DOMAIN pod.containers[k].env : pod.containers[k].env[i] \in Variables
      BY <3>1
    <3> QED
      BY <2>1, <3>1, <3>2 DEF Variables, WellDefined
  <2>3. ToSet(pod.volumes) \subseteq Volumes
    BY <2>1 DEF IInv, Proper, PodType
  <2> QED
    BY <2>2, <2>3 DEF IInv, SettingsOK, TypeOK
<1> QED
  BY <1>1, Invariant, PTL

\* No patch adds a variable, a mount or a volume that is there.
THEOREM NothingTwice == Spec => []NothingIsAddedTwice
<1>1. IInv => NothingIsAddedTwice
  BY DEF IInv, Proper, WellDefined, NothingIsAddedTwice, IsInjective
<1> QED
  BY <1>1, Invariant, PTL

\* A container with a token path mounts the token, and the pod has its volume.
THEOREM TokensAreMounted == Spec => []TokenIsMounted
<1>1. IInv => TokenIsMounted
  BY DEF IInv
<1> QED
  BY <1>1, Invariant, PTL

\* A second patch of the same configuration does nothing.
THEOREM PatchesAreStable == Spec => []PatchIsStable
<1>1. IInv => PatchIsStable
  BY PatchedIsStable DEF IInv, SettingsOK, PatchIsStable
<1> QED
  BY <1>1, Invariant, PTL

\* The log calls a pod mutated exactly when it is.
THEOREM ReportsAreTrue == Spec => []ReportIsTrue
<1>1. IInv => ReportIsTrue
  BY ReportOfPatch DEF IInv, SettingsOK, ReportIsTrue
<1> QED
  BY <1>1, Invariant, PTL

\* The elements of s are the first ones of t.
Extends(s, t) == Len(s) <= Len(t) /\ \A i \in 1..Len(s) : t[i] = s[i]

\* Then s is a prefix of t.
LEMMA ExtendsPrefix ==
    ASSUME NEW S, NEW s \in Seq(S), NEW t \in Seq(S), Extends(s, t)
    PROVE  IsPrefix(s, t)
BY DEF Extends, IsPrefix

\* A sequence extends itself, and an appended element extends it.
LEMMA ExtendsFacts ==
    ASSUME NEW S, NEW s \in Seq(S), NEW x
    PROVE  Extends(s, s) /\ Extends(s, Append(s, x))
BY DEF Extends

\* What a step leaves of a container: its variables and mounts are the first
\* ones, and those added to an excluded container are the author's.
ContainerStays(k) ==
    /\ Extends(pod.containers[k].env, pod'.containers[k].env)
    /\ Extends(pod.containers[k].mounts, pod'.containers[k].mounts)

\* A patch adds nothing at all to a container that is excluded.
LEMMA SkippedStays ==
    ASSUME MutatePod, NEW k \in Containers, k \in skip
    PROVE  pod'.containers[k] = pod.containers[k]
BY DEF MutatePod, Patched

\* A patch adds to the end of the lists of a container.
LEMMA PatchStays ==
    ASSUME IInv, MutatePod, NEW k \in Containers
    PROVE  ContainerStays(k)
<1> DEFINE c == pod.containers[k]
           n == pod'.containers[k]
<1>1. /\ c \in ContainerType /\ WellDefined(c.env) /\ IsInjective(c.mounts)
      /\ c.env \in Seq(Variables) /\ c.mounts \in Seq(Volumes) /\ config \in Configs
  BY DEF MutatePod, IInv, SettingsOK, Proper, PodType, ContainerType
<1>2. n = IF k \in skip THEN c ELSE AddEnvToContainer(c)
  BY DEF MutatePod, Patched
<1>3. CASE k \in skip
  <2>1. Extends(c.env, n.env) /\ Extends(c.mounts, n.mounts)
    BY <1>1, <1>2, <1>3, ExtendsFacts
  <2> QED
    BY <2>1 DEF ContainerStays
<1>4. CASE k \notin skip
  <2>1. Extends(c.env, n.env)
    BY <1>1, <1>2, <1>4, ContainerKept DEF Extends
  <2>2. n.mounts = c.mounts \/ n.mounts = Append(c.mounts, VolumeName(config.method))
    BY <1>2, <1>4 DEF AddEnvToContainer, MountsOf
  <2>3. Extends(c.mounts, n.mounts)
    <3> HIDE DEF c, n
    <3> QED
      BY <1>1, <2>2, ExtendsFacts
  <2> QED
    BY <1>4, <2>1, <2>3 DEF ContainerStays
<1> QED
  BY <1>3, <1>4

\* So does a variable of the author's.
LEMMA DefineVarStays ==
    ASSUME IInv, NEW l \in Containers, NEW name \in UserNames, DefineVar(l, name),
           NEW k \in Containers
    PROVE  ContainerStays(k)
<1> DEFINE c == pod.containers[k]
           n == pod'.containers[k]
           a == Var(name, "user")
<1>1. c.env \in Seq(Variables) /\ c.mounts \in Seq(Volumes) /\ pod \in PodType
  BY DEF IInv, Proper, PodType, ContainerType
<1>2. n.mounts = c.mounts /\ n.env = IF k = l THEN Append(c.env, a) ELSE c.env
  BY <1>1 DEF DefineVar, PodType, ContainerType
<1> HIDE DEF a, c, n
<1>3. Extends(c.env, n.env) /\ Extends(c.mounts, n.mounts)
  BY <1>1, <1>2, ExtendsFacts
<1> QED
  BY <1>3 DEF ContainerStays, c, n

\* And a mount of the author's.
LEMMA MountVolumeStays ==
    ASSUME IInv, NEW l \in Containers, NEW v \in Volumes, MountVolume(l, v),
           NEW k \in Containers
    PROVE  ContainerStays(k)
<1> DEFINE c == pod.containers[k]
           n == pod'.containers[k]
<1>1. c.env \in Seq(Variables) /\ c.mounts \in Seq(Volumes) /\ pod \in PodType
  BY DEF IInv, Proper, PodType, ContainerType
<1>2. n.env = c.env /\ n.mounts = IF k = l THEN Append(c.mounts, v) ELSE c.mounts
  BY <1>1 DEF MountVolume, PodType, ContainerType
<1> HIDE DEF c, n
<1>3. Extends(c.env, n.env) /\ Extends(c.mounts, n.mounts)
  BY <1>1, <1>2, ExtendsFacts
<1> QED
  BY <1>2, <1>3 DEF ContainerStays, c, n

\* A configuration and a volume leave the containers.
LEMMA OthersStay ==
    ASSUME IInv, pod'.containers = pod.containers, NEW k \in Containers
    PROVE  ContainerStays(k)
<1>1. /\ pod.containers[k].env \in Seq(Variables) /\ pod.containers[k].mounts \in Seq(Volumes)
  BY DEF IInv, Proper, PodType, ContainerType
<1> QED
  BY <1>1, ExtendsFacts DEF ContainerStays

\* No step takes a volume from the pod.
LEMMA VolumesStay ==
    ASSUME IInv, Next
    PROVE  ToSet(pod.volumes) \subseteq ToSet(pod'.volumes)
<1>1. pod \in PodType /\ pod.volumes \in Seq(Volumes) /\ IsInjective(pod.volumes)
  BY DEF IInv, Proper, PodType
<1>2. CASE MutatePod
  <2>1. config \in Configs /\ pod'.volumes = VolumesOf(pod)
    BY <1>2 DEF MutatePod, Patched, IInv, SettingsOK
  <2> QED
    BY <1>1, <2>1, VolumeFacts
<1>3. CASE \E v \in Volumes : DefineVolume(v)
  <2>1. PICK v \in Volumes :
            v \notin ToSet(pod.volumes) /\ pod' = [pod EXCEPT !.volumes = Append(@, v)]
    BY <1>3 DEF DefineVolume
  <2>2. pod'.volumes = Append(pod.volumes, v)
    BY <1>1, <2>1 DEF PodType
  <2> QED
    BY <1>1, <2>1, <2>2, InjectiveAppend
<1>4. CASE \/ \E c \in Configs \cup {None} : Configure(c)
           \/ \E k \in Containers, name \in UserNames : DefineVar(k, name)
           \/ \E k \in Containers, v \in Volumes : MountVolume(k, v)
  <2>1. pod'.volumes = pod.volumes
    BY <1>1, <1>4 DEF Configure, DefineVar, MountVolume, PodType
  <2> QED
    BY <2>1
<1> QED
  BY <1>2, <1>3, <1>4 DEF Next

\* What the author defined stays in its place, and what the author excluded
\* gets nothing of the webhook's, neither variables nor mounts.
THEOREM AuthorsAreKept == Spec => AuthorIsKept
<1> DEFINE Kept == \A k \in Containers : LET c == pod.containers[k]
                                             n == pod'.containers[k] IN
               /\ IsPrefix(c.env, n.env) /\ IsPrefix(c.mounts, n.mounts)
               /\ MutatePod /\ k \in skip => n = c
           A == Kept /\ ToSet(pod.volumes) \subseteq ToSet(pod'.volumes)
<1>1. ASSUME IInv, Next, IInv', NEW k \in Containers
      PROVE  LET c == pod.containers[k]
                 n == pod'.containers[k] IN
             /\ IsPrefix(c.env, n.env) /\ IsPrefix(c.mounts, n.mounts)
             /\ MutatePod /\ k \in skip => n = c
  <2>1. pod \in PodType /\ pod' \in PodType
    BY <1>1 DEF IInv, Proper
  <2>2. ContainerStays(k)
    <3>1. CASE MutatePod
      BY <1>1, <3>1, PatchStays
    <3>2. CASE \E l \in Containers, name \in UserNames : DefineVar(l, name)
      BY <1>1, <3>2, DefineVarStays
    <3>3. CASE \E l \in Containers, v \in Volumes : MountVolume(l, v)
      BY <1>1, <3>3, MountVolumeStays
    <3>4. CASE (\E c \in Configs \cup {None} : Configure(c)) \/ (\E v \in Volumes : DefineVolume(v))
      <4>1. pod'.containers = pod.containers
        BY <2>1, <3>4 DEF Configure, DefineVolume, PodType
      <4> QED
        BY <1>1, <4>1, OthersStay
    <3> QED
      BY <1>1, <3>1, <3>2, <3>3, <3>4 DEF Next
  <2>3. /\ pod.containers[k].env \in Seq(Variables) /\ pod'.containers[k].env \in Seq(Variables)
        /\ pod.containers[k].mounts \in Seq(Volumes) /\ pod'.containers[k].mounts \in Seq(Volumes)
    BY <2>1 DEF PodType, ContainerType
  <2>4. /\ IsPrefix(pod.containers[k].env, pod'.containers[k].env)
        /\ IsPrefix(pod.containers[k].mounts, pod'.containers[k].mounts)
    BY <2>2, <2>3, ExtendsPrefix DEF ContainerStays
  <2> QED
    BY <2>4, SkippedStays
<1>2. IInv /\ [Next]_vars => [A]_pod
  <2> SUFFICES ASSUME IInv, Next PROVE A
    BY DEF vars
  <2>1. IInv'
    BY StepInv
  <2>2. Kept
    BY <1>1, <2>1
  <2> QED
    BY <2>2, VolumesStay
<1> QED
  BY <1>2, Invariant, PTL DEF Spec, AuthorIsKept
=============================================================================
