---------------------------- MODULE StorageProofs ----------------------------
(***************************************************************************)
(* Proofs about what the server stores.  SettingsFile, for any number of   *)
(* requests of any forms, any readers and any faults: nobody is locked     *)
(* out, and a request that meets no other one saves exactly what it asked  *)
(* for.  AssetPipeline, for any faults and any number of retries, sweeps,  *)
(* deletes and edits: an asset that is ready can be played, and cleanup    *)
(* leaves it alone.                                                        *)
(***************************************************************************)
EXTENDS SettingsFile, AssetPipeline, FiniteSetTheorems, TLAPS

Saved == {r \in Requests : pc[r] = "saved"}

\* Everything but the bound of the commands under way
Types ==
  /\ file \in Settings \union {Torn}
  /\ mem \in Settings /\ viewer \in Settings
  /\ pc \in [Requests -> Points]
  /\ then \in [Requests -> Points]
  /\ form \in [Requests -> AllForms]
  /\ conf \in [Requests -> Settings] /\ before \in [Requests -> Settings]
  /\ operator \in BOOLEAN /\ crashed \in BOOLEAN
  /\ rows \in 0..MaxRows /\ reloads \in Nat
  /\ reading \in [Readers -> Settings \union {Torn}]
  /\ alone \subseteq Requests

\* The handler has dealt with the account and not yet set everything.
Settled(r) ==
  \/ pc[r] \in {"early", "late"}
  \/ pc[r] \in {"read", "assign"} /\ then[r] = "late"

\* Where a request is, given what it is about: the order of its calls
Course(r) ==
  /\ pc[r] \in {"read", "assign"} =>
       then[r] \in {"auth", "dismiss", "late", "publish", "served"}
  /\ pc[r] = "auth" \/ (pc[r] \in {"read", "assign"} /\ then[r] = "auth")
       => form[r].kind \in {"patch", "form"}
  /\ Settled(r) => form[r].kind \in {"patch", "form"} /\ form[r].auth \in BOOLEAN
  /\ pc[r] = "dismiss" \/ (pc[r] \in {"read", "assign"} /\ then[r] = "dismiss")
       => form[r].kind = "dismiss"
  /\ pc[r] \in {"snapshot", "open", "write"} =>
       form[r].kind = "dismiss" \/ form[r].auth \in BOOLEAN

\* Wherever the settings are, authentication is on only with an account.
Accounted ==
  /\ NobodyIsLockedOut
  /\ \A r \in Requests : conf[r].auth => operator
  /\ \A r \in Requests :
       Settled(r) /\ form[r].auth = TRUE => operator

\* What the file, the ConfigParser and the memory hold while a request that
\* met no other one, and does not switch the default assets, is under way.
Lone(r) ==
  LET first == then[r] \in {"auth", "dismiss"}
  IN
  /\ pc[r] \in {"read", "assign"} => then[r] # "late"
  /\ pc[r] = "read" /\ first => Loaded(file) = before[r]
  /\ pc[r] = "assign" /\ first => conf[r] = before[r]
  /\ pc[r] \in {"auth", "early", "dismiss"} => mem = before[r]
  /\ pc[r] = "late" =>
       mem = [before[r] EXCEPT !.auth = form[r].auth,
                               !.early = Asked(form[r].early, @)]
  /\ pc[r] \in {"snapshot", "open", "write"} => mem = Expected(r)
  /\ pc[r] \in {"open", "write"} => conf[r] = Expected(r)
  /\ pc[r] \in {"read", "assign"} /\ then[r] = "publish" =>
       file # Torn /\ file = Expected(r)
  /\ pc[r] = "assign" /\ then[r] = "publish" => conf[r] = Expected(r)
  /\ pc[r] = "publish" => file = Expected(r) /\ mem = Expected(r)

Exact ==
  \A r \in alone :
    /\ pc[r] # "idle"
    /\ Active(r) => \A s \in Requests \ {r} : ~Active(s)
    /\ Active(r) /\ ~Switches(r) => Lone(r)

\* Commands come from requests that ended, or from elsewhere.
Told == reloads <= Cardinality(Saved) + 1

Inv == /\ Types /\ (\A r \in Requests : Course(r)) /\ Accounted /\ Exact
       /\ Told

-----------------------------------------------------------------------------
(* Values *)

LEMMA FormType ==
  ASSUME NEW f \in AllForms
  PROVE  /\ f.kind \in {"patch", "form", "dismiss", "page"}
         /\ f.auth \in BOOLEAN \union {Keep}
         /\ f.early \in Values \union {Bad, Keep}
         /\ f.assets \in BOOLEAN \union {Keep}
         /\ f.late \in Values \union {Keep}
         /\ f.proof \in BOOLEAN
<1>1. CASE f \in Patch
  BY <1>1 DEF Patch, Values
<1>2. CASE f \in Form
  BY <1>2 DEF Form, Values
<1>3. CASE f = Other("dismiss")
  BY <1>3 DEF Other
<1>4. CASE f = Other("page")
  BY <1>4 DEF Other
<1> QED
  BY <1>1, <1>2, <1>3, <1>4 DEF AllForms

LEMMA SettingsType ==
  ASSUME NEW m \in Settings
  PROVE  /\ m.auth \in BOOLEAN /\ m.early \in Values \union {Bad}
         /\ m.assets \in BOOLEAN /\ m.late \in Values
         /\ m.dismissed \in BOOLEAN /\ m # Torn
BY SentinelAssumption DEF Settings

LEMMA DefaultsType == Defaults \in Settings /\ ~Defaults.auth
BY DEF Defaults, Settings, Values

LEMMA LoadedType ==
  ASSUME NEW f \in Settings \union {Torn}
  PROVE  /\ Loaded(f) \in Settings /\ Loaded(f) # Torn
         /\ Loaded(f).auth => f # Torn /\ f.auth
         /\ Loaded(Loaded(f)) = Loaded(f)
BY DefaultsType, SettingsType DEF Loaded

\* A form with the account settled is still a form.
LEMMA SettledType ==
  ASSUME NEW f \in AllForms, f.kind \in {"patch", "form"}, NEW b \in BOOLEAN
  PROVE  LET g == [f EXCEPT !.auth = b] IN
           /\ g \in AllForms /\ g.kind = f.kind /\ g.auth = b
           /\ g.early = f.early /\ g.assets = f.assets /\ g.late = f.late
<1>1. f \in Patch \/ f \in Form
  <2>1. Other("dismiss").kind = "dismiss" /\ Other("page").kind = "page"
    BY DEF Other
  <2> QED
    BY <2>1 DEF AllForms
<1>2. CASE f \in Patch
  BY <1>2 DEF Patch, AllForms
<1>3. CASE f \in Form
  BY <1>3 DEF Form, AllForms
<1> QED
  BY <1>1, <1>2, <1>3

-----------------------------------------------------------------------------
(* A step of one request *)

\* The others stay where they are.
Others(r) ==
  \A s \in Requests \ {r} :
    /\ pc'[s] = pc[s] /\ then'[s] = then[s]
    /\ form'[s] = form[s] /\ conf'[s] = conf[s]

\* What is to be shown of a request that goes on: while it has met no other
\* one, no other one changes what it relies on.
LEMMA Move ==
  ASSUME Inv, NEW r \in Requests, Active(r), Others(r), pc'[r] # "idle",
         UNCHANGED <<alone, before>>,
         Types', Course(r)', Accounted', Told',
         r \in alone /\ Active(r)' /\ ~Switches(r)' => Lone(r)'
  PROVE  Inv'
<1>1. \A s \in Requests : Course(s)'
  BY DEF Others, Course, Settled, Inv
<1>2. Exact'
  <2> SUFFICES ASSUME NEW s \in alone
               PROVE  /\ pc'[s] # "idle"
                      /\ Active(s)' => \A x \in Requests \ {s} : ~Active(x)'
                      /\ Active(s)' /\ ~Switches(s)' => Lone(s)'
    BY DEF Exact
  <2>1. s \in Requests
    BY DEF Inv, Types
  <2>2. CASE s = r
    <3>1. \A x \in Requests \ {s} : ~Active(x)
      BY <2>2 DEF Inv, Exact
    <3> QED
      BY <2>2, <3>1 DEF Others, Active
  <2>3. CASE s # r
    BY <2>1, <2>3 DEF Inv, Exact, Others, Active
  <2> QED
    BY <2>2, <2>3
<1> QED
  BY <1>1, <1>2 DEF Inv

\* Only an end may add to the requests that ended.
LEMMA ToldStays ==
  ASSUME Inv, NEW r \in Requests, Active(r), Others(r),
         pc' \in [Requests -> Points], pc'[r] # "saved", reloads' = reloads
  PROVE  Told'
<1>1. Saved' = Saved
  BY DEF Saved, Others, Active, Ended
<1> QED
  BY <1>1 DEF Inv, Told

LEMMA ReadStep == ASSUME Inv, NEW r \in Requests, Read(r) PROVE Inv'
<1>1. /\ pc[r] = "read" /\ Active(r) /\ Others(r)
      /\ pc' = [pc EXCEPT ![r] = "assign"] /\ pc'[r] = "assign"
      /\ conf' = [conf EXCEPT ![r] = Loaded(file)] /\ conf'[r] = Loaded(file)
      /\ UNCHANGED <<file, mem, then, form, operator, rows, viewer, reading,
                     reloads, crashed, alone, before>>
  BY DEF Read, Goto, Others, Active, Ended, display, history, Inv, Types
<1>2. Loaded(file) \in Settings /\ (Loaded(file).auth => operator)
      /\ (file # Torn => Loaded(file) = file)
  BY LoadedType DEF Inv, Types, Accounted, NobodyIsLockedOut, Loaded
<1>3. Types'
  BY <1>1, <1>2 DEF Inv, Types, Points
<1>4. Course(r)'
  BY <1>1 DEF Inv, Course, Settled
<1>5. Accounted'
  BY <1>1, <1>2 DEF Inv, Types, Accounted, NobodyIsLockedOut, Others, Settled
<1>6. Told'
  BY <1>1, <1>3, ToldStays DEF Types
<1>7. ASSUME r \in alone, ~Switches(r)' PROVE Lone(r)'
  <2>1. Lone(r) /\ Switches(r)' = Switches(r)
    BY <1>1, <1>7 DEF Inv, Exact, Switches
  <2>2. Expected(r)' = Expected(r)
    BY <1>1 DEF Expected
  <2>3. then[r] = "publish" => Loaded(file) = Expected(r)
    BY <1>1, <1>2, <2>1 DEF Lone
  <2> QED
    BY <1>1, <2>1, <2>2, <2>3 DEF Lone
<1> QED
  BY <1>1, <1>3, <1>4, <1>5, <1>6, <1>7, Move

LEMMA AssignStep == ASSUME Inv, NEW r \in Requests, Assign(r) PROVE Inv'
<1>1. /\ pc[r] = "assign" /\ Active(r) /\ Others(r)
      /\ pc' = [pc EXCEPT ![r] = then[r]] /\ pc'[r] = then[r]
      /\ conf' = [conf EXCEPT ![r] = Defaults] /\ conf'[r] = Defaults
      /\ mem' = conf[r]
      /\ UNCHANGED <<file, then, form, operator, viewer, reading,
                     reloads, crashed, alone, before>>
  BY DEF Assign, Goto, Others, Active, Ended, display, history, Inv, Types
<1>2. then[r] \in {"auth", "dismiss", "late", "publish", "served"}
  BY <1>1 DEF Inv, Course
<1>3. Types'
  <2>1. rows' \in 0..MaxRows
    BY DEF Assign, Inv, Types, MaxRows
  <2> QED
    BY <1>1, <2>1, DefaultsType DEF Inv, Types
<1>4. Course(r)'
  BY <1>1, <1>2 DEF Inv, Course, Settled
<1>5. Accounted'
  BY <1>1, <1>2, DefaultsType
  DEF Inv, Types, Accounted, NobodyIsLockedOut, Others, Settled
<1>6. Told'
  BY <1>1, <1>2, <1>3, ToldStays DEF Types
<1>7. ASSUME r \in alone, ~Switches(r)' PROVE Lone(r)'
  <2>1. Lone(r)
    BY <1>1, <1>7 DEF Inv, Exact, Switches
  <2>2. Expected(r)' = Expected(r)
    BY <1>1 DEF Expected
  <2>3. then[r] # "late"
    BY <1>1, <2>1 DEF Lone
  <2> QED
    BY <1>1, <1>2, <2>1, <2>2, <2>3 DEF Lone
<1> QED
  BY <1>1, <1>2, <1>3, <1>4, <1>5, <1>6, <1>7, Move

LEMMA AuthenticateStep ==
  ASSUME Inv, NEW r \in Requests, Authenticate(r) PROVE Inv'
<1> DEFINE wanted == Asked(form[r].auth, mem.auth)
<1>1. /\ pc[r] = "auth" /\ Active(r)
      /\ form[r] \in AllForms /\ form[r].kind \in {"patch", "form"}
      /\ mem \in Settings
      /\ UNCHANGED <<file, mem, then, conf, rows, viewer, reading, reloads,
                     crashed, alone, before>>
  BY DEF Authenticate, Active, Ended, display, history, Inv, Types, Course
<1>2. wanted \in BOOLEAN
  BY <1>1, FormType, SettingsType DEF Asked
<1>3. CASE Accepted(form[r], wanted, mem.auth)
  <2> DEFINE g == [form[r] EXCEPT !.auth = wanted]
  <2>1. /\ g \in AllForms /\ g.kind = form[r].kind /\ g.auth = wanted
        /\ g.early = form[r].early /\ g.assets = form[r].assets
        /\ g.late = form[r].late
    <3> HIDE DEF wanted
    <3> QED
      BY <1>1, <1>2, SettledType
  <2>2. /\ pc' = [pc EXCEPT ![r] = "early"] /\ pc'[r] = "early"
        /\ form' = [form EXCEPT ![r] = g] /\ form'[r] = g
        /\ operator' = (operator \/ (wanted /\ form[r].proof))
        /\ Others(r)
    BY <1>1, <1>3 DEF Authenticate, Goto, Others, Inv, Types
  <2>3. operator' \in BOOLEAN /\ (operator => operator') /\ (wanted => operator')
    BY <1>1, <1>2, <1>3, <2>2, FormType DEF Accepted, Inv, Types
  <2> HIDE DEF wanted, g
  <2>4. Types'
    BY <1>1, <2>1, <2>2, <2>3 DEF Inv, Types, Points
  <2>5. Course(r)'
    BY <1>1, <1>2, <2>1, <2>2 DEF Inv, Course, Settled
  <2>6. Accounted'
    BY <1>1, <2>1, <2>2, <2>3
    DEF Inv, Types, Accounted, NobodyIsLockedOut, Others, Settled
  <2>7. Told'
    BY <1>1, <2>2, <2>4, ToldStays DEF Types
  <2>8. ASSUME r \in alone, ~Switches(r)' PROVE Lone(r)'
    <3>1. Lone(r)
      BY <1>1, <2>1, <2>2, <2>8 DEF Inv, Exact, Switches
    <3> QED
      BY <1>1, <2>2, <3>1 DEF Lone
  <2> QED
    BY <1>1, <2>2, <2>4, <2>5, <2>6, <2>7, <2>8, Move
<1>4. CASE ~Accepted(form[r], wanted, mem.auth)
  <2>1. /\ pc' = [pc EXCEPT ![r] = "refused"] /\ pc'[r] = "refused"
        /\ form' = form /\ operator' = operator /\ Others(r)
    BY <1>1, <1>4 DEF Authenticate, Goto, Others, Inv, Types
  <2> HIDE DEF wanted
  <2>2. Types'
    BY <1>1, <2>1 DEF Inv, Types, Points
  <2>3. Course(r)' /\ ~Active(r)'
    BY <1>1, <2>1 DEF Course, Settled, Active, Ended
  <2>4. Accounted'
    BY <1>1, <2>1 DEF Inv, Types, Accounted, NobodyIsLockedOut, Others, Settled
  <2>5. Told'
    BY <1>1, <2>1, <2>2, ToldStays DEF Types
  <2> QED
    BY <1>1, <2>1, <2>2, <2>3, <2>4, <2>5, Move
<1> QED
  BY <1>3, <1>4

LEMMA EarlyStep == ASSUME Inv, NEW r \in Requests, SetEarly(r) PROVE Inv'
<1> DEFINE early == Asked(form[r].early, mem.early)
<1>1. /\ pc[r] = "early" /\ Active(r) /\ Others(r)
      /\ mem' = [mem EXCEPT !.auth = form[r].auth, !.early = early]
      /\ pc'[r] \in {"read", "late"}
      /\ pc' = [pc EXCEPT ![r] = pc'[r]]
      /\ then' \in [Requests -> Points]
      /\ (pc'[r] = "read" => then'[r] = "late")
      /\ (pc'[r] = "read" <=> Asked(form[r].assets, mem.assets) # mem.assets)
      /\ UNCHANGED <<file, form, conf, operator, rows, viewer, reading, reloads,
                     crashed, alone, before>>
  BY DEF SetEarly, Goto, Call, Others, Active, Ended, display, history, Inv,
         Types, Points
<1>2. /\ form[r] \in AllForms /\ form[r].auth \in BOOLEAN
      /\ form[r].kind \in {"patch", "form"} /\ mem \in Settings
  BY <1>1 DEF Inv, Types, Course, Settled
<1>3. early \in Values \union {Bad}
  BY <1>2, FormType, SettingsType DEF Asked
<1> HIDE DEF early
<1>4. mem' \in Settings /\ mem'.auth = form[r].auth
  BY <1>1, <1>2, <1>3 DEF Settings
<1>5. Types'
  <2>1. pc' \in [Requests -> Points]
    BY <1>1 DEF Inv, Types, Points
  <2> QED
    BY <1>1, <1>4, <2>1 DEF Inv, Types
<1>6. Course(r)'
  BY <1>1, <1>2 DEF Course, Settled
<1>7. Accounted'
  BY <1>1, <1>2, <1>4
  DEF Inv, Types, Accounted, NobodyIsLockedOut, Others, Settled
<1>8. Told'
  BY <1>1, <1>5, ToldStays DEF Types
<1>9. ASSUME r \in alone, ~Switches(r)' PROVE Lone(r)'
  <2>1. Lone(r) /\ ~Switches(r)
    BY <1>1, <1>9 DEF Inv, Exact, Switches
  <2>2. mem = before[r] /\ pc'[r] = "late"
    BY <1>1, <2>1 DEF Lone, Switches
  <2>3. mem' = [before[r] EXCEPT !.auth = form[r].auth,
                                 !.early = Asked(form[r].early, @)]
    BY <1>1, <2>2 DEF early
  <2> QED
    BY <1>1, <2>2, <2>3 DEF Lone
<1> QED
  BY <1>1, <1>5, <1>6, <1>7, <1>8, <1>9, Move

LEMMA LateStep == ASSUME Inv, NEW r \in Requests, SetLate(r) PROVE Inv'
<1> DEFINE assets == Asked(form[r].assets, mem.assets)
           late == Asked(form[r].late, mem.late)
<1>1. /\ pc[r] = "late" /\ Active(r) /\ Others(r)
      /\ mem' = [mem EXCEPT !.assets = assets, !.late = late]
      /\ pc' = [pc EXCEPT ![r] = "snapshot"] /\ pc'[r] = "snapshot"
      /\ UNCHANGED <<file, then, form, conf, operator, rows, viewer, reading,
                     reloads, crashed, alone, before>>
  BY DEF SetLate, Goto, Others, Active, Ended, display, history, Inv, Types
<1>2. /\ form[r] \in AllForms /\ form[r].auth \in BOOLEAN
      /\ form[r].kind \in {"patch", "form"} /\ mem \in Settings
  BY <1>1 DEF Inv, Types, Course, Settled
<1>3. assets \in BOOLEAN /\ late \in Values
  BY <1>2, FormType, SettingsType DEF Asked
<1> HIDE DEF assets, late
<1>4. mem' \in Settings /\ mem'.auth = mem.auth
  BY <1>1, <1>2, <1>3 DEF Settings
<1>5. Types'
  BY <1>1, <1>4 DEF Inv, Types, Points
<1>6. Course(r)'
  BY <1>1, <1>2 DEF Course, Settled
<1>7. Accounted'
  BY <1>1, <1>2, <1>4
  DEF Inv, Types, Accounted, NobodyIsLockedOut, Others, Settled
<1>8. Told'
  BY <1>1, <1>5, ToldStays DEF Types
<1>9. ASSUME r \in alone, ~Switches(r)' PROVE Lone(r)'
  <2>1. Lone(r)
    BY <1>1, <1>9 DEF Inv, Exact, Switches
  <2>2. mem = [before[r] EXCEPT !.auth = form[r].auth,
                                !.early = Asked(form[r].early, @)]
    BY <1>1, <2>1 DEF Lone
  <2>3. before[r] \in Settings
    BY DEF Inv, Types
  <2>4. mem.assets = before[r].assets /\ mem.late = before[r].late
    BY <2>2, <2>3 DEF Settings
  <2>5. mem' = Expected(r)
    BY <1>1, <1>2, <2>2, <2>3, <2>4 DEF Expected, Settings, assets, late
  <2>6. Expected(r)' = Expected(r)
    BY <1>1 DEF Expected
  <2> QED
    BY <1>1, <2>5, <2>6 DEF Lone
<1> QED
  BY <1>1, <1>5, <1>6, <1>7, <1>8, <1>9, Move

LEMMA DismissStep == ASSUME Inv, NEW r \in Requests, Dismiss(r) PROVE Inv'
<1>1. /\ pc[r] = "dismiss" /\ Active(r) /\ Others(r)
      /\ mem' = [mem EXCEPT !.dismissed = TRUE]
      /\ pc' = [pc EXCEPT ![r] = "snapshot"] /\ pc'[r] = "snapshot"
      /\ UNCHANGED <<file, then, form, conf, operator, rows, viewer, reading,
                     reloads, crashed, alone, before>>
  BY DEF Dismiss, Goto, Others, Active, Ended, display, history, Inv, Types
<1>2. form[r].kind = "dismiss" /\ mem \in Settings
  BY <1>1 DEF Inv, Types, Course
<1>3. mem' \in Settings /\ mem'.auth = mem.auth
  BY <1>1, <1>2 DEF Settings
<1>4. Types'
  BY <1>1, <1>3 DEF Inv, Types, Points
<1>5. Course(r)'
  BY <1>1, <1>2 DEF Course, Settled
<1>6. Accounted'
  BY <1>1, <1>3 DEF Inv, Types, Accounted, NobodyIsLockedOut, Others, Settled
<1>7. Told'
  BY <1>1, <1>4, ToldStays DEF Types
<1>8. ASSUME r \in alone, ~Switches(r)' PROVE Lone(r)'
  <2>1. Lone(r)
    BY <1>1, <1>8 DEF Inv, Exact, Switches
  <2>2. mem' = Expected(r)'
    BY <1>1, <1>2, <2>1 DEF Lone, Expected
  <2> QED
    BY <1>1, <2>2 DEF Lone
<1> QED
  BY <1>1, <1>4, <1>5, <1>6, <1>7, <1>8, Move

LEMMA SnapshotStep == ASSUME Inv, NEW r \in Requests, Snapshot(r) PROVE Inv'
<1>1. /\ pc[r] = "snapshot" /\ Active(r) /\ Others(r)
      /\ \/ pc'[r] = "failed" /\ conf' = conf
         \/ /\ pc'[r] = "open" /\ conf' = [conf EXCEPT ![r] = mem]
            /\ conf'[r] = mem
      /\ pc' = [pc EXCEPT ![r] = pc'[r]]
      /\ UNCHANGED <<file, mem, then, form, operator, rows, viewer, reading,
                     reloads, crashed, alone, before>>
  BY DEF Snapshot, Goto, Others, Active, Ended, display, history, Inv, Types
<1>2. Types'
  <2>1. pc' \in [Requests -> Points]
    BY <1>1 DEF Inv, Types, Points
  <2>2. conf' \in [Requests -> Settings]
    BY <1>1 DEF Inv, Types
  <2> QED
    BY <1>1, <2>1, <2>2 DEF Inv, Types
<1>3. Course(r)'
  BY <1>1 DEF Inv, Course, Settled
<1>4. Accounted'
  BY <1>1 DEF Inv, Types, Accounted, NobodyIsLockedOut, Others, Settled
<1>5. Told'
  BY <1>1, <1>2, ToldStays DEF Types
<1>6. ASSUME r \in alone, Active(r)', ~Switches(r)' PROVE Lone(r)'
  <2>1. Lone(r)
    BY <1>1, <1>6 DEF Inv, Exact, Switches
  <2>2. pc'[r] = "open" /\ conf'[r] = mem /\ mem' = mem
    BY <1>1, <1>6 DEF Active, Ended
  <2>3. Expected(r)' = Expected(r)
    BY <1>1 DEF Expected
  <2> QED
    BY <1>1, <2>1, <2>2, <2>3 DEF Lone
<1> QED
  BY <1>1, <1>2, <1>3, <1>4, <1>5, <1>6, Move

LEMMA OpenStep == ASSUME Inv, NEW r \in Requests, Open(r) PROVE Inv'
<1>1. /\ pc[r] = "open" /\ Active(r) /\ Others(r) /\ file' = Torn
      /\ pc' = [pc EXCEPT ![r] = "write"] /\ pc'[r] = "write"
      /\ UNCHANGED <<mem, then, form, conf, operator, rows, viewer, reading,
                     reloads, crashed, alone, before>>
  BY DEF Open, Goto, Others, Active, Ended, display, history, Inv, Types
<1>2. Types'
  BY <1>1 DEF Inv, Types, Points
<1>3. Course(r)'
  BY <1>1 DEF Inv, Course, Settled
<1>4. Accounted'
  BY <1>1 DEF Inv, Types, Accounted, NobodyIsLockedOut, Others, Settled
<1>5. Told'
  BY <1>1, <1>2, ToldStays DEF Types
<1>6. ASSUME r \in alone, ~Switches(r)' PROVE Lone(r)'
  <2>1. Lone(r)
    BY <1>1, <1>6 DEF Inv, Exact, Switches
  <2>2. Expected(r)' = Expected(r)
    BY <1>1 DEF Expected
  <2> QED
    BY <1>1, <2>1, <2>2 DEF Lone
<1> QED
  BY <1>1, <1>2, <1>3, <1>4, <1>5, <1>6, Move

LEMMA WriteStep == ASSUME Inv, NEW r \in Requests, Write(r) PROVE Inv'
<1>1. /\ pc[r] = "write" /\ Active(r) /\ Others(r) /\ file' = conf[r]
      /\ pc' = [pc EXCEPT ![r] = "read"] /\ pc'[r] = "read"
      /\ then' = [then EXCEPT ![r] = AfterSave(form[r])]
      /\ then'[r] = AfterSave(form[r])
      /\ conf' = [conf EXCEPT ![r] = Defaults] /\ conf'[r] = Defaults
      /\ UNCHANGED <<mem, form, operator, rows, viewer, reading, reloads,
                     crashed, alone, before>>
  BY DEF Write, Call, Goto, Others, Active, Ended, display, history, Inv, Types
<1>2. /\ AfterSave(form[r]) \in {"served", "publish"}
      /\ conf[r] \in Settings /\ conf[r] # Torn
  BY SentinelAssumption DEF AfterSave, Inv, Types
<1>3. Types'
  BY <1>1, <1>2, DefaultsType DEF Inv, Types, Points
<1>4. Course(r)'
  BY <1>1, <1>2 DEF Inv, Course, Settled
<1>5. Accounted'
  BY <1>1, <1>2, DefaultsType
  DEF Inv, Types, Accounted, NobodyIsLockedOut, Others, Settled
<1>6. Told'
  BY <1>1, <1>3, ToldStays DEF Types
<1>7. ASSUME r \in alone, ~Switches(r)' PROVE Lone(r)'
  <2>1. Lone(r)
    BY <1>1, <1>7 DEF Inv, Exact, Switches
  <2>2. Expected(r)' = Expected(r)
    BY <1>1 DEF Expected
  <2> QED
    BY <1>1, <1>2, <2>1, <2>2 DEF Lone
<1> QED
  BY <1>1, <1>3, <1>4, <1>5, <1>6, <1>7, Move

LEMMA DiskFullStep == ASSUME Inv, NEW r \in Requests, DiskFull(r) PROVE Inv'
<1>1. /\ pc[r] = "write" /\ Active(r) /\ Others(r)
      /\ pc' = [pc EXCEPT ![r] = "failed"] /\ pc'[r] = "failed"
      /\ UNCHANGED <<file, mem, then, form, conf, operator, rows, viewer,
                     reading, reloads, crashed, alone, before>>
  BY DEF DiskFull, Goto, Others, Active, Ended, display, history, Inv, Types
<1>2. Types'
  BY <1>1 DEF Inv, Types, Points
<1>3. Course(r)' /\ ~Active(r)'
  BY <1>1 DEF Course, Settled, Active, Ended
<1>4. Accounted'
  BY <1>1 DEF Inv, Types, Accounted, NobodyIsLockedOut, Others, Settled
<1>5. Told'
  BY <1>1, <1>2, ToldStays DEF Types
<1> QED
  BY <1>1, <1>2, <1>3, <1>4, <1>5, Move

LEMMA PublishStep == ASSUME Inv, NEW r \in Requests, Publish(r) PROVE Inv'
<1>1. /\ pc[r] = "publish" /\ Active(r) /\ Others(r)
      /\ pc' = [pc EXCEPT ![r] = "saved"] /\ pc'[r] = "saved"
      /\ reloads' = reloads + 1
      /\ UNCHANGED <<file, mem, then, form, conf, operator, rows, viewer,
                     reading, crashed, alone, before>>
  BY DEF Publish, Goto, Others, Active, Ended, history, Inv, Types
<1>2. Types'
  <2>1. reloads' \in Nat
    BY <1>1 DEF Inv, Types
  <2>2. pc' \in [Requests -> Points]
    BY <1>1 DEF Inv, Types, Points
  <2> QED
    BY <1>1, <2>1, <2>2 DEF Inv, Types
<1>3. Course(r)' /\ ~Active(r)'
  BY <1>1 DEF Course, Settled, Active, Ended
<1>4. Accounted'
  BY <1>1 DEF Inv, Types, Accounted, NobodyIsLockedOut, Others, Settled
<1>5. Told'
  <2>1. Saved' = Saved \union {r} /\ r \notin Saved
    BY <1>1, <1>2 DEF Saved, Others
  <2>2. IsFiniteSet(Saved)
    BY ThreadAssumption, FS_Subset DEF Saved
  <2>3. Cardinality(Saved') = Cardinality(Saved) + 1 /\ Cardinality(Saved) \in Nat
    BY <2>1, <2>2, FS_AddElement, FS_CardinalityType
  <2> QED
    BY <1>1, <2>3 DEF Inv, Types, Told
<1> QED
  BY <1>1, <1>2, <1>3, <1>4, <1>5, Move

-----------------------------------------------------------------------------
(* The other steps *)

LEMMA StartStep == ASSUME Inv, NEW r \in Requests, Start(r) PROVE Inv'
<1>1. PICK f \in Forms : form' = [form EXCEPT ![r] = f] /\ Begin(r, f.kind)
  BY DEF Start
<1>2. /\ pc[r] = "idle" /\ ~Active(r) /\ Others(r) /\ f \in AllForms
      /\ form'[r] = f
      /\ pc' = [pc EXCEPT ![r] = "read"] /\ pc'[r] = "read"
      /\ then' = [then EXCEPT ![r] = then'[r]]
      /\ then'[r] = CASE f.kind = "dismiss" -> "dismiss"
                     [] f.kind = "page" -> "served"
                     [] OTHER -> "auth"
      /\ before' = [before EXCEPT ![r] = Loaded(file)]
      /\ before'[r] = Loaded(file)
      /\ alone' = IF \E s \in Requests : Active(s)
                    THEN alone \ {s \in Requests : Active(s)}
                    ELSE alone \union {r}
      /\ UNCHANGED <<file, mem, conf, operator, rows, viewer, reading, reloads,
                     crashed>>
  BY <1>1, FormAssumption
  DEF Start, Begin, Call, Goto, Others, Active, Ended, display, Inv, Types
<1>3. /\ f.kind \in {"patch", "form", "dismiss", "page"}
      /\ then'[r] \in {"dismiss", "served", "auth"}
      /\ then'[r] = "auth" => f.kind \in {"patch", "form"}
      /\ then'[r] = "dismiss" => f.kind = "dismiss"
  BY <1>2, FormType
<1>4. Types'
  <2>1. pc' \in [Requests -> Points] /\ then' \in [Requests -> Points]
    BY <1>2, <1>3 DEF Inv, Types, Points
  <2>2. before' \in [Requests -> Settings] /\ form' \in [Requests -> AllForms]
    BY <1>1, <1>2, LoadedType DEF Inv, Types
  <2>3. alone' \subseteq Requests
    BY <1>2 DEF Inv, Types
  <2> QED
    BY <1>2, <2>1, <2>2, <2>3 DEF Inv, Types
<1>5. ASSUME NEW s \in Requests PROVE Course(s)'
  <2>1. CASE s = r
    BY <1>2, <1>3, <2>1 DEF Course, Settled
  <2>2. CASE s # r
    BY <1>2, <2>2 DEF Inv, Course, Settled, Others
  <2> QED
    BY <2>1, <2>2
<1>6. Accounted'
  BY <1>2, <1>3 DEF Inv, Types, Accounted, NobodyIsLockedOut, Others, Settled
<1>7. Told'
  <2>1. Saved' = Saved
    BY <1>2 DEF Saved, Others
  <2> QED
    BY <1>2, <2>1 DEF Inv, Told
<1>8. Exact'
  <2> SUFFICES ASSUME NEW s \in alone'
               PROVE  /\ pc'[s] # "idle"
                      /\ Active(s)' => \A x \in Requests \ {s} : ~Active(x)'
                      /\ Active(s)' /\ ~Switches(s)' => Lone(s)'
    BY DEF Exact
  <2>1. s \in Requests
    BY <1>4 DEF Types
  <2>2. CASE s = r
    <3>1. r \notin alone
      BY <1>2 DEF Inv, Exact
    <3>2. \A x \in Requests : ~Active(x)
      BY <1>2, <2>2, <3>1
    <3>3. \A x \in Requests \ {r} : ~Active(x)'
      BY <1>2, <3>2 DEF Others, Active
    <3>4. Lone(r)'
      BY <1>2, <1>3 DEF Lone
    <3> QED
      BY <1>2, <2>2, <3>3, <3>4
  <2>3. CASE s # r
    <3>1. s \in alone /\ ~Active(s)
      BY <1>2, <2>1, <2>3
    <3>2. pc[s] # "idle"
      BY <3>1 DEF Inv, Exact
    <3>3. pc'[s] # "idle" /\ ~Active(s)'
      BY <1>2, <2>1, <2>3, <3>1, <3>2 DEF Others, Active
    <3> QED
      BY <3>3
  <2> QED
    BY <2>2, <2>3
<1> QED
  BY <1>4, <1>5, <1>6, <1>7, <1>8 DEF Inv

LEMMA RestartStep == ASSUME Inv, Restart PROVE Inv'
<1>1. /\ crashed' = TRUE /\ file' = Loaded(file) /\ mem' = Loaded(file)
      /\ pc' = [r \in Requests |-> IF Active(r) THEN "failed" ELSE pc[r]]
      /\ UNCHANGED <<then, form, conf, operator, rows, viewer, reading, reloads,
                     alone, before>>
  BY DEF Restart, display
<1>2. /\ file' \in Settings /\ (file'.auth => operator)
  BY <1>1, LoadedType DEF Inv, Types, Accounted, NobodyIsLockedOut
<1>3. \A r \in Requests : pc'[r] \in Ended \union {"idle"} /\ ~Active(r)'
  BY <1>1 DEF Active, Ended
<1>4. \A r \in Requests : /\ pc'[r] = "saved" <=> pc[r] = "saved"
                          /\ pc'[r] = "idle" => pc[r] = "idle"
  BY <1>1 DEF Active, Ended
<1>5. Types'
  <2>1. pc' \in [Requests -> Points]
    BY <1>1 DEF Inv, Types, Points
  <2> QED
    BY <1>1, <1>2, <2>1 DEF Inv, Types
<1>6. \A r \in Requests : Course(r)'
  BY <1>3 DEF Course, Settled, Ended
<1>7. Accounted'
  BY <1>1, <1>2, <1>3 DEF Inv, Accounted, NobodyIsLockedOut, Settled, Ended
<1>8. Exact'
  BY <1>1, <1>3, <1>4 DEF Inv, Types, Exact
<1>9. Told'
  <2>1. Saved' = Saved
    BY <1>4 DEF Saved
  <2> QED
    BY <1>1, <2>1 DEF Inv, Told
<1> QED
  BY <1>5, <1>6, <1>7, <1>8, <1>9 DEF Inv

LEMMA ExactStays ==
  ASSUME Exact, UNCHANGED <<file, mem, pc, then, form, conf, alone, before>>
  PROVE  Exact'
<1> SUFFICES ASSUME NEW r \in alone
             PROVE  /\ pc'[r] # "idle"
                    /\ Active(r)' => \A s \in Requests \ {r} : ~Active(s)'
                    /\ Active(r)' /\ ~Switches(r)' => Lone(r)'
  BY DEF Exact
<1>1. \A s : Active(s)' = Active(s)
  BY DEF Active
<1>2. Switches(r)' = Switches(r) /\ Expected(r)' = Expected(r)
  BY DEF Switches, Expected
<1>3. Lone(r) => Lone(r)'
  BY <1>2 DEF Lone
<1> QED
  BY <1>1, <1>2, <1>3 DEF Exact

\* Commands come and go, and the viewer reads: nothing of the server changes.
LEMMA ViewerStep ==
  ASSUME Inv, Nudge \/ (\E t \in Readers : ViewerRead(t) \/ ViewerAssign(t))
  PROVE  Inv'
<1>1. UNCHANGED <<file, mem, pc, then, form, conf, operator, rows, crashed,
                  alone, before>>
  BY DEF Nudge, ViewerRead, ViewerAssign, request, history
<1>2. /\ reloads' \in Nat
      /\ reloads' <= reloads \/ reloads' = 1
  BY DEF Nudge, ViewerRead, ViewerAssign, Inv, Types
<1>3. viewer' \in Settings /\ reading' \in [Readers -> Settings \union {Torn}]
  <2>1. CASE Nudge
    BY <2>1 DEF Nudge, Inv, Types
  <2>2. CASE \E t \in Readers : ViewerRead(t)
    BY <2>2, LoadedType DEF ViewerRead, Inv, Types
  <2>3. CASE \E t \in Readers : ViewerAssign(t)
    BY <2>3 DEF ViewerAssign, Inv, Types
  <2> QED
    BY <2>1, <2>2, <2>3
<1>4. Types'
  BY <1>1, <1>2, <1>3 DEF Inv, Types
<1>5. \A r \in Requests : Course(r)'
  BY <1>1 DEF Inv, Course, Settled
<1>6. Accounted'
  BY <1>1 DEF Inv, Accounted, NobodyIsLockedOut, Settled
<1>7. Exact'
  BY <1>1, ExactStays DEF Inv
<1>8. Told'
  <2>1. Saved' = Saved
    BY <1>1 DEF Saved
  <2>2. Cardinality(Saved) \in Nat /\ reloads \in Nat
    BY ThreadAssumption, FS_Subset, FS_CardinalityType DEF Saved, Inv, Types
  <2> QED
    BY <1>2, <2>1, <2>2 DEF Inv, Told
<1> QED
  BY <1>4, <1>5, <1>6, <1>7, <1>8 DEF Inv

LEMMA InitInv == Init => Inv
<1> SUFFICES ASSUME Init PROVE Inv
  OBVIOUS
<1>1. file \in Settings
  <2>1. Customised \in Settings
    BY DEF Customised, Settings, Values
  <2> QED
    BY <2>1, DefaultsType DEF Init
<1>2. Other("page") \in AllForms
  BY DEF AllForms
<1>3. Types
  <2>1. /\ pc \in [Requests -> Points] /\ then \in [Requests -> Points]
        /\ form \in [Requests -> AllForms]
        /\ conf \in [Requests -> Settings] /\ before \in [Requests -> Settings]
    BY <1>2, DefaultsType DEF Init, Points
  <2>2. rows \in 0..MaxRows /\ reloads \in Nat
    BY DEF Init, MaxRows
  <2> QED
    BY <1>1, <2>1, <2>2 DEF Init, Types
<1>4. \A r \in Requests : Course(r)
  BY DEF Init, Course, Settled
<1>5. Accounted
  BY DefaultsType DEF Init, Accounted, NobodyIsLockedOut, Settled
<1>6. Exact
  BY DEF Init, Exact
<1>7. Told
  <2>1. Cardinality(Saved) \in Nat
    BY ThreadAssumption, FS_Subset, FS_CardinalityType DEF Saved
  <2> QED
    BY <2>1 DEF Init, Told
<1> QED
  BY <1>3, <1>4, <1>5, <1>6, <1>7 DEF Inv

LEMMA StepInv == Inv /\ [Next]_vars => Inv'
<1> SUFFICES ASSUME Inv, [Next]_vars PROVE Inv'
  OBVIOUS
<1>1. CASE UNCHANGED vars
  <2>1. UNCHANGED <<file, mem, pc, then, form, conf, operator, rows, viewer,
                    reading, reloads, crashed, alone, before>>
    BY <1>1 DEF vars, request, display, history
  <2>2. Exact'
    BY <2>1, ExactStays DEF Inv
  <2>3. Types' /\ Told' /\ Accounted'
    BY <2>1 DEF Inv, Types, Told, Saved, Accounted, NobodyIsLockedOut, Settled
  <2>4. \A r \in Requests : Course(r)'
    BY <2>1 DEF Inv, Course, Settled
  <2> QED
    BY <2>2, <2>3, <2>4 DEF Inv
<1>2. ASSUME NEW r \in Requests, Serve(r) PROVE Inv'
  BY <1>2, StartStep, ReadStep, AssignStep, AuthenticateStep, EarlyStep,
     LateStep, DismissStep, SnapshotStep, OpenStep, WriteStep, DiskFullStep,
     PublishStep DEF Serve
<1> QED
  BY <1>1, <1>2, RestartStep, ViewerStep DEF Next

-----------------------------------------------------------------------------
(* The theorems *)

LEMMA InvType == Inv => TypeOK
<1> SUFFICES ASSUME Inv PROVE TypeOK
  OBVIOUS
<1>1. Cardinality(Saved) <= Cardinality(Requests)
      /\ Cardinality(Saved) \in Nat /\ Cardinality(Requests) \in Nat
  BY ThreadAssumption, FS_Subset, FS_CardinalityType DEF Saved
<1>2. reloads \in 0..(Cardinality(Requests) + 1)
  BY <1>1 DEF Inv, Types, Told
<1> QED
  BY <1>2 DEF Inv, Types, TypeOK

\* Every variable has its type, and there are never more commands under way
\* than requests were saved, and one.
THEOREM TypeCorrect == Spec => []TypeOK
BY InitInv, StepInv, InvType, PTL DEF Spec

\* Whatever requests overlap, are refused, fail half-way or are cut off by a
\* restart, authentication is never on without an account.
THEOREM NeverLockedOut == Spec => []NobodyIsLockedOut
<1>1. Inv => NobodyIsLockedOut
  BY DEF Inv, Accounted
<1> QED
  BY <1>1, InitInv, StepInv, PTL DEF Spec

\* A request that met no other one saves what it asked for, and nothing else,
\* whatever the requests before it left behind.
THEOREM LoneSaves == Spec => []LoneSaveIsExact
<1>1. Inv => LoneSaveIsExact
  <2> SUFFICES ASSUME Inv, NEW r \in alone, pc[r] = "publish", ~Switches(r)
               PROVE  file = Expected(r) /\ mem = file
    BY DEF LoneSaveIsExact
  <2>1. Active(r)
    BY DEF Active, Ended
  <2> QED
    BY <2>1 DEF Inv, Exact, Lone
<1> QED
  BY <1>1, InitInv, StepInv, PTL DEF Spec

-----------------------------------------------------------------------------
(***************************************************************************)
(* The asset pipeline with one process of the pool and one request at a    *)
(* time.                                                                   *)
(***************************************************************************)

\* What the run and the theorems are about: with a second process a task that
\* was queued twice runs twice at once, and with a second request an edit
\* overlaps a delete.
Alone == (\A v, w \in Worker : v = w) /\ Operators <= 1

Running(w) == task[w].at # "idle"
IsReady(r) == ~r.processing /\ ~r.failed

\* The kinds of asset that a job is queued for, and the steps that it takes
Suits(job) ==
  IF job = "image" THEN IsImage
  ELSE IF job = "download" THEN kind = "remote" ELSE ~IsImage

StepsOf(job) ==
  CASE job = "image" -> {"decode", "header", "encode", "write", "replace", "unlink",
                         "commit", "failed"}
    [] job = "download" -> {"fetch", "fetching", "record", "chain", "failed"}
    [] job = "video" -> {"probe", "reject", "failed"}

\* Until there is a row nobody else has anything to do, and no hour passes.
Unborn ==
  upload # "done" =>
    /\ ~row.live /\ ~edit.live /\ ~sweep.live /\ delete.at = "none" /\ aged = {}
    /\ \A m \in Message : queue[m] = 0
    /\ \A w \in Worker : ~Running(w)
    /\ upload = "none" => disk = [f \in File |-> "none"]

\* A task runs on the original of a row in processing, which nobody takes out
\* of processing but the task.
Working ==
  \A w \in Worker : Running(w) =>
    /\ Suits(task[w].job) /\ task[w].at \in StepsOf(task[w].job)
    /\ task[w].snap.uri = "src" /\ task[w].out = "staging"
    /\ row.live => row.processing

\* The original is not there any more; or it was not to be removed.
Gone == disk["src"] = "none" \/ "original" \in swallowed

\* How far an image is, and that nothing of it is old enough for cleanup.
Converting ==
  \A w \in Worker :
    /\ task[w].at = "header" =>
         kind = "shrink" /\ (row.live /\ delete.at # "row" => disk["src"] # "none")
    /\ task[w].at \in {"encode", "write", "replace", "unlink", "commit"} => good
    /\ task[w].at = "write" => disk["staging"] = "partial" /\ "staging" \notin aged
    /\ task[w].at = "replace" => disk["staging"] = "fit" /\ "staging" \notin aged
    /\ task[w].at = "unlink" => kind = "convert"
    /\ task[w].at \in {"unlink", "commit"} =>
         /\ Final \notin aged
         /\ row.live /\ delete.at # "row" => disk[Final] = "fit"
    /\ task[w].at = "commit" /\ kind = "convert" => Gone

\* The row names the original for as long as there is one.
Named ==
  /\ row.live /\ row.processing => row.uri = "src"
  /\ row.live /\ row.uri = "webp" =>
       kind = "convert" /\ ~row.processing /\ Gone

\* What a request to edit has read is what a save may put back.
Editing ==
  edit.live =>
    /\ row.live /\ delete.at = "none"
    /\ IF edit.processing THEN edit.uri = "src"
       ELSE ~row.processing /\ row.failed = edit.failed /\ row.uri = edit.uri

\* What fits the board was made of a good image, and the upload is never half
\* written.
Sound ==
  /\ \A f \in File : disk[f] = "fit" => good /\ IsImage
  /\ disk["src"] # "partial"

\* cleanup has not listed the file of the row, or it is not old any more; but a
\* save may name again an original that was not to be removed.
Spares ==
  row.live =>
    \/ row.uri \notin clean \intersect aged
    \/ "original" \in swallowed /\ row.uri = "src" /\ kind = "convert"

Queued == \A m \in Message : queue[m] > 0 => Suits(m.job)

PipelineInv ==
  /\ PipelineTypeOK /\ Unborn /\ Queued /\ Working /\ Converting /\ Named /\ Editing
  /\ Sound /\ Spares /\ ReadyIsPlayable

-----------------------------------------------------------------------------
(* Rows and messages *)

\* The rows that the tasks and the reconciler write.
LEMMA RowTypes ==
  ASSUME PipelineTypeOK, NEW w \in Worker, NEW uri \in Uri
  PROVE  {Stamped, SetError, Update(Metadata(w)), Committed(w, uri)} \subseteq Row
<1>1. row \in Row /\ task[w].snap.stamp \in Stamp
  BY DEF PipelineTypeOK, Task, Row
<1>2. /\ [row EXCEPT !.stamp = "fresh"] \in Row
      /\ [row EXCEPT !.processing = FALSE, !.enabled = FALSE, !.failed = TRUE] \in Row
  BY <1>1 DEF Row, Stamp
<1>3. Metadata(w) \in Row
  BY <1>1 DEF Row, Metadata
<1>4. [Metadata(w) EXCEPT !.processing = FALSE, !.uri = uri] \in Row
  BY <1>3 DEF Row
<1> QED
  BY <1>1, <1>2, <1>3, <1>4 DEF Stamped, SetError, Committed, Update

LEMMA StampedType == ASSUME PipelineTypeOK PROVE Stamped \in Row
BY DEF PipelineTypeOK, Stamped, Update, Row, Stamp

LEMMA NewRowType ==
  /\ NoRow \in Row /\ ~NoRow.live
  /\ \A stamp \in Stamp : LET r == NewRow(stamp) IN
       r \in Row /\ r.processing /\ r.uri = "src"
<1>1. NoRow \in Row
  BY DEF NoRow, Row, Uri, Stamp
<1> QED
  BY <1>1 DEF NoRow, NewRow, Row

LEMMA TaskType ==
  ASSUME PipelineTypeOK, NEW w \in Worker
  PROVE  /\ Stop(w) => task' \in [Worker -> Task]
         /\ \A step \in Step : Go(w, step) => task' \in [Worker -> Task]
<1>1. Idle \in Task
  BY NewRowType DEF Idle, Task, Job, Step, File
<1>2. \A step \in Step : [task[w] EXCEPT !.at = step] \in Task
  BY DEF PipelineTypeOK, Task
<1> QED
  BY <1>1, <1>2 DEF PipelineTypeOK, Stop, Go

\* What the metadata of a task changes of a row
LEMMA RecordedRow ==
  ASSUME PipelineTypeOK, NEW w \in Worker, NEW r, r = Update(Metadata(w))
  PROVE  /\ r.live = row.live /\ r.processing = row.processing /\ r.uri = row.uri
         /\ ~row.live => r = row
BY DEF PipelineTypeOK, Row, Update, Metadata

\* What the end of a task makes of a row
LEMMA CommittedRow ==
  ASSUME PipelineTypeOK, NEW w \in Worker, NEW uri \in Uri, NEW r, r = Committed(w, uri)
  PROVE  /\ row.live => r.live /\ IsReady(r) /\ r.uri = uri
         /\ ~row.live => r = row
BY DEF PipelineTypeOK, Row, Update, Metadata, Committed, IsReady

\* A file that is removed, or was not to be, changes nothing of the others.
LEMMA RemovedType ==
  ASSUME PipelineTypeOK, NEW f \in File, Removed(f) \/ UNCHANGED <<disk, aged>>
  PROVE  /\ disk' \in [File -> Content] /\ aged' \in SUBSET File
         /\ \A g \in aged' : disk'[g] # "none"
         /\ aged' \subseteq aged
         /\ \A g \in File : disk'[g] \in {disk[g], "none"}
         /\ \A g \in File \ {f} : disk'[g] = disk[g]
BY DEF Removed, PipelineTypeOK, Content

LEMMA PutType ==
  ASSUME NEW q \in [Message -> Nat], NEW m \in Message
  PROVE  /\ Put(q, m) \in [Message -> Nat]
         /\ \A x \in Message : Put(q, m)[x] > 0 => x = m \/ q[x] > 0
BY DEF Put

LEMMA MsgType ==
  ASSUME NEW job \in Job, NEW tries \in 0..2, tries <= Tries(job)
  PROVE  Msg(job, tries) \in Message /\ Msg(job, tries).job = job
BY DEF Message, Msg

LEMMA FirstJobSuits ==
  ASSUME PipelineTypeOK
  PROVE  /\ Msg(FirstJob, 0) \in Message /\ Suits(FirstJob)
         /\ Msg(FirstJob, 0).job = FirstJob
BY PipelineAssumption
   DEF PipelineTypeOK, Kind, FirstJob, Suits, IsImage, Msg, Message, Job, Tries

\* The reconciler queues the job that the kind of the asset calls for.
LEMMA ReconcilerJob ==
  LET job == IF IsImage THEN "image" ELSE "video" IN
  Suits(job) /\ Msg(job, 0) \in Message /\ Msg(job, 0).job = job
BY DEF Suits, Msg, Message, Job, Tries

-----------------------------------------------------------------------------
(* The steps: one lemma for each action, in it one step for each part of the *)
(* invariant that the action can disturb                                     *)

LEMMA StoreInv ==
  ASSUME Alone, PipelineInv, Store
  PROVE  PipelineInv'
<1>1. PipelineTypeOK'
  BY DEF Store, Written, Use, pool, PipelineInv, PipelineTypeOK, Content
<1>2. Unborn'
  BY DEF Store, Written, pool, PipelineInv, Unborn, Running
<1>3. Converting'
  BY DEF Store, pool, PipelineInv, Converting, Unborn, Running, Gone
<1>4. Named'
  BY DEF Store, PipelineInv, Named, Unborn, Gone
<1>5. Sound'
  BY DEF Store, Written, PipelineInv, Sound, IsImage, PipelineTypeOK
<1>6. Spares'
  BY DEF Store, Written, PipelineInv, Spares
<1>7. ReadyIsPlayable'
  BY DEF Store, PipelineInv, ReadyIsPlayable, Unborn
<1>8. Queued' /\ Working' /\ Editing'
  BY DEF Store, pool, PipelineInv, Queued, Working, Editing, Suits, Running, IsImage
<1> QED
  BY <1>1, <1>2, <1>3, <1>4, <1>5, <1>6, <1>7, <1>8 DEF PipelineInv

LEMMA CreateInv ==
  ASSUME Alone, PipelineInv, Create
  PROVE  PipelineInv'
<1>1. /\ row' \in {NoRow, NewRow("none"), NewRow("fresh")} /\ row' \in Row
      /\ row'.live => row'.processing /\ row'.uri = "src"
      /\ queue' \in [Message -> Nat]
      /\ \A m \in Message : queue'[m] > 0 => Suits(m.job)
  <2>1. row' \in {NoRow, NewRow("none"), NewRow("fresh")}
    BY DEF Create
  <2>2. row' \in Row /\ (row'.live => row'.processing /\ row'.uri = "src")
    BY <2>1, NewRowType DEF Stamp
  <2> QED
    BY <2>1, <2>2, FirstJobSuits, PutType
       DEF PipelineInv, PipelineTypeOK, Queued, Create
<1>2. PipelineTypeOK'
  BY <1>1 DEF Create, Use, PipelineInv, PipelineTypeOK
<1>3. Unborn'
  BY <1>1 DEF Create, PipelineInv, Unborn
<1>4. Queued'
  BY <1>1 DEF Create, PipelineInv, Queued, Suits, IsImage
<1>5. Working'
  BY <1>1 DEF Create, PipelineInv, Working, Running, Suits, IsImage
<1>6. Converting'
  BY <1>1 DEF Create, PipelineInv, Converting, Unborn, Running, Gone
<1>7. Named'
  BY <1>1 DEF Named, Gone
<1>8. Editing'
  BY <1>1 DEF Create, PipelineInv, Editing, Unborn
<1>9. Spares'
  BY <1>1 DEF Create, PipelineInv, Spares, Unborn
<1>10. ReadyIsPlayable'
  BY <1>1 DEF ReadyIsPlayable
<1>11. Sound'
  BY DEF Create, PipelineInv, Sound, IsImage
<1> QED
  BY <1>2, <1>3, <1>4, <1>5, <1>6, <1>7, <1>8, <1>9, <1>10, <1>11 DEF PipelineInv

LEMMA TakeInv ==
  ASSUME Alone, PipelineInv, NEW w \in Worker, Take(w)
  PROVE  PipelineInv'
<1>1. PipelineTypeOK'
  BY DEF Take, Message, RowOrNone, FirstStep, Job, PipelineInv, PipelineTypeOK, File,
         Task, Step
<1>2. Unborn'
  BY DEF Take, PipelineInv, Unborn
<1>3. Queued'
  BY DEF Take, PipelineInv, Queued, Suits, IsImage
<1>4. Working'
  BY DEF Take, Message, RowOrNone, FirstStep, Job, PipelineInv, Working, Queued,
         Named, Running, Suits, StepsOf, IsImage, Alone, PipelineTypeOK, Gone
<1>5. Converting'
  BY DEF Take, Message, FirstStep, Job, PipelineInv, Converting, Final, PipelineTypeOK,
         Gone
<1>6. Named' /\ Editing' /\ Sound' /\ Spares' /\ ReadyIsPlayable'
  BY DEF Take, PipelineInv, Named, Editing, Sound, Spares, ReadyIsPlayable,
         IsImage, Final, Finished, Gone
<1> QED
  BY <1>1, <1>2, <1>3, <1>4, <1>5, <1>6 DEF PipelineInv

LEMMA FetchInv ==
  ASSUME Alone, PipelineInv, NEW w \in Worker, Fetch(w)
  PROVE  PipelineInv'
<1>1. PipelineTypeOK'
  BY DEF Fetch, Written, Go, PipelineInv, PipelineTypeOK, File, Content, Task, Step
<1>2. Unborn'
  BY DEF Fetch, PipelineInv, Unborn, Running
<1>3. Working'
  BY DEF Fetch, Go, PipelineInv, Working, PipelineTypeOK, Running, Suits, StepsOf,
         Task, Job, Alone
<1>4. Converting'
  BY DEF Fetch, Go, PipelineInv, Converting, Alone, Gone
<1>5. Named'
  BY DEF Fetch, Written, PipelineInv, Named, Gone
<1>6. Sound'
  BY DEF Fetch, Written, PipelineInv, Sound, IsImage
<1>7. Spares'
  BY DEF Fetch, Written, PipelineInv, Spares
<1>8. ReadyIsPlayable'
  BY DEF Fetch, Written, PipelineInv, ReadyIsPlayable, Final, Finished, IsImage
<1>9. Queued' /\ Editing'
  BY DEF Fetch, PipelineInv, Queued, Editing, Suits, IsImage
<1> QED
  BY <1>1, <1>2, <1>3, <1>4, <1>5, <1>6, <1>7, <1>8, <1>9 DEF PipelineInv

LEMMA FetchedInv ==
  ASSUME Alone, PipelineInv, NEW w \in Worker, Fetched(w)
  PROVE  PipelineInv'
<1>1. PipelineTypeOK'
  <2>1. task' \in [Worker -> Task]
    BY TaskType DEF Fetched, PipelineInv, Step
  <2>2. /\ disk' \in [File -> Content] /\ aged' \in SUBSET File
        /\ \A f \in aged' : disk'[f] # "none"
    BY DEF Fetched, Landed, Removed, PipelineInv, PipelineTypeOK, Content
  <2> QED
    BY <2>1, <2>2 DEF Fetched, PipelineInv, PipelineTypeOK
<1>2. Unborn'
  BY DEF Fetched, PipelineInv, Unborn, Running
<1>3. Working'
  BY DEF Fetched, Go, PipelineInv, Working, PipelineTypeOK, Running, Suits, StepsOf,
         Task, Job, Alone
<1>4. Converting'
  BY DEF Fetched, Go, PipelineInv, Converting, PipelineTypeOK, Task, Alone, Gone
<1>5. Named'
  BY DEF Fetched, PipelineInv, Named, Working, Running, Gone
<1>6. Sound'
  BY DEF Fetched, Landed, Removed, PipelineInv, Sound, IsImage, PipelineTypeOK, File, Uri
<1>7. Spares'
  BY DEF Fetched, Landed, Removed, PipelineInv, Spares
<1>8. ReadyIsPlayable'
  BY DEF Fetched, PipelineInv, ReadyIsPlayable, Working, Running
<1>9. Queued' /\ Editing'
  BY DEF Fetched, PipelineInv, Queued, Editing, Suits, IsImage
<1> QED
  BY <1>1, <1>2, <1>3, <1>4, <1>5, <1>6, <1>7, <1>8, <1>9 DEF PipelineInv

LEMMA RecordInv ==
  ASSUME Alone, PipelineInv, NEW w \in Worker, Record(w)
  PROVE  PipelineInv'
<1>1. /\ row' \in Row /\ row'.live = row.live /\ row'.processing = row.processing
      /\ row'.uri = row.uri /\ (~row.live => row' = row)
  <2>1. row' = Update(Metadata(w)) /\ "src" \in Uri
    BY DEF Record, Uri
  <2> QED
    BY <2>1, RowTypes, RecordedRow DEF PipelineInv
<1>2. PipelineTypeOK'
  BY <1>1 DEF Record, Go, PipelineInv, PipelineTypeOK, Task, Step
<1>3. Unborn'
  BY <1>1 DEF Record, PipelineInv, Unborn, Running
<1>4. Working'
  BY <1>1 DEF Record, Go, PipelineInv, Working, PipelineTypeOK, Running, Suits,
              StepsOf, Task, Job, Alone
<1>5. Converting'
  BY <1>1 DEF Record, Go, PipelineInv, Converting, Final, Gone
<1>6. Named'
  BY <1>1 DEF Record, PipelineInv, Named, Gone
<1>7. Editing'
  BY <1>1 DEF Record, PipelineInv, Editing, Working, Running
<1>8. Spares'
  BY <1>1 DEF Record, PipelineInv, Spares
<1>9. ReadyIsPlayable'
  BY <1>1 DEF Record, PipelineInv, ReadyIsPlayable, Working, Running
<1>10. Queued' /\ Sound'
  BY DEF Record, PipelineInv, Queued, Sound, Suits, IsImage
<1> QED
  BY <1>2, <1>3, <1>4, <1>5, <1>6, <1>7, <1>8, <1>9, <1>10 DEF PipelineInv

LEMMA ChainInv ==
  ASSUME Alone, PipelineInv, NEW w \in Worker, Chain(w)
  PROVE  PipelineInv'
<1>1. row' \in Row /\ queue' \in [Message -> Nat]
      /\ \A m \in Message : queue'[m] > 0 => m.job = "video" \/ queue[m] > 0
  <2>1. row' = Stamped /\ "src" \in Uri
    BY DEF Chain, Uri
  <2>2. Msg("video", 0) \in Message /\ Msg("video", 0).job = "video"
    BY MsgType DEF Job, Tries
  <2> QED
    BY <2>1, <2>2, RowTypes, PutType DEF PipelineInv, PipelineTypeOK, Chain
<1>2. task' \in [Worker -> Task]
  BY TaskType DEF PipelineInv, PipelineTypeOK, Task, Chain, Step
<1>3. PipelineTypeOK'
  BY <1>1, <1>2 DEF Chain, Use, PipelineInv, PipelineTypeOK
<1>4. Unborn'
  BY <1>1 DEF Chain, PipelineInv, Unborn, Running
<1>5. Queued'
  BY <1>1 DEF Chain, PipelineInv, Queued, Working, Suits, Running, StepsOf, IsImage
<1>6. Working'
  BY <1>1 DEF Chain, Stamped, Stop, Go, Update, Idle, PipelineInv, Working,
              PipelineTypeOK, Running, Suits, StepsOf, Task, Job, Alone
<1>7. Converting'
  BY <1>1 DEF Chain, Stamped, Stop, Use, Go, Update, Idle, NoRow, PipelineInv,
              Converting, PipelineTypeOK, Final, File, Task, Gone
<1>8. Named'
  BY <1>1 DEF Chain, Stamped, Update, PipelineInv, Named, Gone
<1>9. Editing'
  BY <1>1 DEF Chain, Stamped, Update, PipelineInv, Editing
<1>10. Spares'
  BY <1>1 DEF Chain, Stamped, Update, PipelineInv, Spares
<1>11. ReadyIsPlayable'
  BY <1>1 DEF Chain, Stamped, Update, PipelineInv, ReadyIsPlayable, Final, Finished,
              IsImage
<1>12. Sound'
  BY DEF Chain, PipelineInv, Sound, IsImage
<1> QED
  BY <1>3, <1>4, <1>5, <1>6, <1>7, <1>8, <1>9, <1>10, <1>11, <1>12 DEF PipelineInv

LEMMA DecodeInv ==
  ASSUME Alone, PipelineInv, NEW w \in Worker, Decode(w)
  PROVE  PipelineInv'
<1>1. task[w].snap.uri = "src" /\ task[w].job = "image" /\ IsImage
  BY DEF Decode, PipelineInv, PipelineTypeOK, Working, Running, Suits, StepsOf, Task, Job
<1>2. /\ \/ Go(w, "failed")
         \/ Go(w, "header") /\ kind = "shrink" /\ disk["src"] # "none"
         \/ Go(w, "encode") /\ good
      /\ Removed("staging") \/ UNCHANGED <<disk, aged>>
      /\ UNCHANGED <<kind, good, swallowed, upload, row, queue, sweep, clean, edit,
                     delete, used>>
  BY <1>1 DEF Decode, Decoded
<1>3. /\ disk' \in [File -> Content] /\ aged' \in SUBSET File /\ aged' \subseteq aged
      /\ \A f \in aged' : disk'[f] # "none"
      /\ disk'["src"] = disk["src"] /\ disk'["webp"] = disk["webp"]
      /\ \A f \in File : disk'[f] \in {disk[f], "none"}
  BY <1>2, RemovedType DEF PipelineInv, File, Uri
<1>4. task' \in [Worker -> Task]
  BY <1>2, TaskType DEF PipelineInv, Step
<1>5. PipelineTypeOK'
  BY <1>2, <1>3, <1>4 DEF PipelineInv, PipelineTypeOK
<1>6. Unborn'
  BY <1>2 DEF Decode, PipelineInv, Unborn, Running
<1>7. Working'
  BY <1>1, <1>2 DEF Decode, Go, PipelineInv, Working, PipelineTypeOK, Running, Suits,
                    StepsOf, Task, IsImage
<1>8. Converting'
  BY <1>2, <1>3 DEF Go, PipelineInv, Converting, PipelineTypeOK, Task, Alone, Gone, Final
<1>9. Named' /\ Editing' /\ Queued'
  BY <1>2, <1>3 DEF PipelineInv, Named, Gone, Editing, Queued, Suits, IsImage
<1>10. Sound' /\ Spares'
  BY <1>2, <1>3 DEF PipelineInv, Sound, Spares, IsImage
<1>11. ReadyIsPlayable'
  BY <1>2, <1>3 DEF PipelineInv, ReadyIsPlayable, Final, Finished, IsImage
<1> QED
  BY <1>5, <1>6, <1>7, <1>8, <1>9, <1>10, <1>11 DEF PipelineInv

LEMMA HeaderInv ==
  ASSUME Alone, PipelineInv, NEW w \in Worker, Header(w)
  PROVE  PipelineInv'
<1>1. /\ task[w].snap.uri = "src" /\ task[w].job = "image" /\ kind = "shrink"
      /\ row.live => row.processing /\ row.uri = "src"
      /\ row.live /\ delete.at # "row" => disk["src"] # "none"
      /\ row \in Row
  BY DEF Header, PipelineInv, PipelineTypeOK, Working, Converting, Named, Running, Suits,
         StepsOf, Task, Job
<1>2. /\ \/ row' = row /\ Go(w, "failed")
         \/ row' = row /\ Go(w, "encode") /\ good
         \/ /\ row' = Committed(w, row.uri) /\ Stop(w) /\ UNCHANGED <<disk, aged>>
            /\ disk["src"] = "fit" \/ "header" \in swallowed'
      /\ Removed("staging") \/ UNCHANGED <<disk, aged>>
      /\ swallowed' = swallowed \/ swallowed' = swallowed \union {"header"}
      /\ used' = used \/ Use("faults")
      /\ UNCHANGED <<kind, good, upload, queue, sweep, clean, edit, delete>>
  BY <1>1 DEF Header, Decoded, PipelineInv, Sound
<1>3. /\ disk' \in [File -> Content] /\ aged' \in SUBSET File /\ aged' \subseteq aged
      /\ \A f \in aged' : disk'[f] # "none"
      /\ disk'["src"] = disk["src"] /\ disk'["webp"] = disk["webp"]
      /\ \A f \in File : disk'[f] \in {disk[f], "none"}
  BY <1>2, RemovedType DEF PipelineInv, File, Uri
<1>4. /\ row' \in Row
      /\ \/ row' = row
         \/ /\ row.live /\ row'.live /\ IsReady(row') /\ row'.uri = "src"
            /\ ~Running(w)'
            /\ disk["src"] = "fit" \/ "header" \in swallowed'
  <2>1. CASE row' = row
    BY <1>1, <2>1
  <2>2. CASE row' = Committed(w, row.uri) /\ Stop(w) /\ row' # row
    <3>1. row.uri \in Uri
      BY <1>1 DEF Row
    <3>2. row' \in Row /\ row.live /\ row'.live /\ IsReady(row') /\ row'.uri = row.uri
      BY <2>2, <3>1, RowTypes, CommittedRow DEF PipelineInv
    <3>3. ~Running(w)'
      BY <2>2 DEF Stop, Idle, Running, PipelineInv, PipelineTypeOK
    <3>4. disk["src"] = "fit" \/ "header" \in swallowed'
      BY <1>2, <2>2
    <3> QED
      BY <1>1, <3>2, <3>3, <3>4
  <2> QED
    BY <1>2, <2>1, <2>2
<1>5. task' \in [Worker -> Task] /\ used' \in [Bounds -> Nat]
      /\ swallowed' \in SUBSET Swallowed /\ swallowed \subseteq swallowed'
      /\ ("original" \in swallowed' => "original" \in swallowed)
  <2>1. task' \in [Worker -> Task]
    BY <1>2, TaskType DEF PipelineInv, Step
  <2>2. used' \in [Bounds -> Nat]
    BY <1>2 DEF Use, PipelineInv, PipelineTypeOK, Bounds
  <2> QED
    BY <1>2, <2>1, <2>2 DEF PipelineInv, PipelineTypeOK, Swallowed
<1>6. PipelineTypeOK'
  BY <1>2, <1>3, <1>4, <1>5 DEF PipelineInv, PipelineTypeOK
<1>7. Unborn'
  BY DEF Header, PipelineInv, Unborn, Running
<1>8. Working'
  <2>1. CASE row' = row
    <3>1. task'[w] \in Task /\ \A v \in Worker \ {w} : ~Running(v)'
      BY <1>5 DEF Running, Alone
    <3>2. Running(w)' => /\ task'[w].at \in {"failed", "encode"}
                         /\ task'[w].job = "image" /\ task'[w].snap.uri = "src"
                         /\ task'[w].out = "staging"
      <4>1. task[w].out = "staging" /\ task[w].at = "header" /\ task[w] \in Task
        BY DEF Header, PipelineInv, PipelineTypeOK, Working, Running
      <4>2. CASE Go(w, "failed") \/ Go(w, "encode")
        BY <1>1, <4>1, <4>2 DEF Go, PipelineInv, PipelineTypeOK, Task
      <4>3. CASE Stop(w)
        BY <4>3 DEF Stop, Idle, Running, PipelineInv, PipelineTypeOK
      <4> QED
        BY <1>2, <4>2, <4>3
    <3> QED
      BY <1>1, <1>2, <2>1, <3>1, <3>2 DEF Working, Suits, StepsOf, IsImage
  <2>2. CASE row' # row
    BY <1>4, <2>2 DEF Working, Alone
  <2> QED
    BY <2>1, <2>2
<1>9. Converting'
  BY <1>2, <1>3, <1>4, <1>5 DEF Go, Running, PipelineInv, Converting, PipelineTypeOK,
                                Task, Alone, Gone, Final, Stop, Idle
<1>10. Named' /\ Editing' /\ Queued'
  BY <1>1, <1>2, <1>4 DEF PipelineInv, Named, Editing, Queued, Suits, IsImage, IsReady
<1>11. Sound' /\ Spares'
  BY <1>1, <1>2, <1>3, <1>4 DEF PipelineInv, Sound, Spares, IsImage
<1>12. ReadyIsPlayable'
  <2>1. CASE row' = row
    BY <1>1, <1>2, <2>1 DEF ReadyIsPlayable
  <2>2. CASE row' # row
    <3>1. row'.uri = "src" /\ Final' = "src" /\ Finished' = "fit" /\ disk' = disk
          /\ delete' = delete /\ good' = good /\ kind' = "shrink" /\ row.live
      BY <1>1, <1>2, <1>4, <2>2 DEF Final, Finished, IsImage, Header, Running
    <3>2. delete.at # "row" => disk["src"] \in {"whole", "fit"}
      BY <1>1, <3>1 DEF PipelineInv, PipelineTypeOK, Sound, File, Uri, Content
    <3>3. disk["src"] = "fit" => good
      BY DEF PipelineInv, Sound, File, Uri
    <3>4. disk["src"] = "fit" \/ "header" \in swallowed'
      BY <1>4, <2>2
    <3> QED
      BY <3>1, <3>2, <3>3, <3>4 DEF ReadyIsPlayable
  <2> QED
    BY <2>1, <2>2
<1> QED
  BY <1>6, <1>7, <1>8, <1>9, <1>10, <1>11, <1>12 DEF PipelineInv

LEMMA EncodeInv ==
  ASSUME Alone, PipelineInv, NEW w \in Worker, Encode(w)
  PROVE  PipelineInv'
<1>1. CASE disk["src"] = "none"
  <2>1. Go(w, "failed") /\ Removed("staging")
    BY <1>1 DEF Encode
  <2>2. /\ disk' \in [File -> Content] /\ aged' \in SUBSET File /\ aged' \subseteq aged
        /\ \A f \in aged' : disk'[f] # "none"
        /\ disk'["src"] = disk["src"] /\ disk'["webp"] = disk["webp"]
        /\ \A f \in File : disk'[f] \in {disk[f], "none"}
    BY <2>1, RemovedType DEF PipelineInv, File, Uri
  <2>3. task' \in [Worker -> Task]
    BY <2>1, TaskType DEF PipelineInv, Step
  <2>4. PipelineTypeOK'
    BY <2>2, <2>3 DEF Encode, PipelineInv, PipelineTypeOK
  <2>5. Unborn'
    BY DEF Encode, PipelineInv, Unborn, Running
  <2>6. Working'
    BY <2>1 DEF Encode, Go, PipelineInv, Working, PipelineTypeOK, Running, Suits,
                StepsOf, Task, IsImage, Job
  <2>7. Converting'
    BY <2>1, <2>2 DEF Encode, Go, PipelineInv, Converting, PipelineTypeOK, Task, Alone,
                      Gone, Final
  <2>8. Named' /\ Editing' /\ Queued'
    BY <2>2 DEF Encode, PipelineInv, Named, Gone, Editing, Queued, Suits, IsImage
  <2>9. Sound' /\ Spares'
    BY <2>2 DEF Encode, PipelineInv, Sound, Spares, IsImage
  <2>10. ReadyIsPlayable'
    BY <2>2 DEF Encode, PipelineInv, ReadyIsPlayable, Final, Finished, IsImage
  <2> QED
    BY <2>4, <2>5, <2>6, <2>7, <2>8, <2>9, <2>10 DEF PipelineInv
<1>2. CASE disk["src"] # "none"
  <2>1. /\ Written("staging", "partial")
        /\ task' = [task EXCEPT ![w].at = "write", ![w].out = "staging"]
    BY <1>2 DEF Encode
  <2>2. PipelineTypeOK'
    <3>1. [task[w] EXCEPT !.at = "write", !.out = "staging"] \in Task
      <4>1. task[w] \in Task
        BY DEF PipelineInv, PipelineTypeOK
      <4> QED
        BY <4>1 DEF Task, Step, File
    <3>2. task' \in [Worker -> Task]
      BY <2>1, <3>1 DEF PipelineInv, PipelineTypeOK
    <3> QED
      BY <2>1, <3>2 DEF Encode, Written, PipelineInv, PipelineTypeOK, Content
  <2>3. Unborn'
    BY <2>1 DEF Encode, PipelineInv, Unborn, Running
  <2>4. Working'
    BY <2>1 DEF Encode, PipelineInv, Working, PipelineTypeOK, Running, Suits, StepsOf,
                Task, IsImage, Job, Alone
  <2>5. Converting'
    BY <2>1 DEF Encode, Written, PipelineInv, Converting, PipelineTypeOK, Task, Alone,
                Gone, File
  <2>6. disk'["src"] = disk["src"] /\ disk'["webp"] = disk["webp"]
        /\ aged' \subseteq aged /\ disk'["staging"] = "partial"
        /\ \A f \in File : disk'[f] \in {disk[f], "partial"}
    BY <2>1 DEF Written, PipelineInv, PipelineTypeOK, File, Uri
  <2>7. Named' /\ Editing' /\ Queued'
    BY <2>6 DEF Encode, PipelineInv, Named, Gone, Editing, Queued, Suits, IsImage
  <2>8. Sound' /\ Spares'
    BY <2>6 DEF Encode, PipelineInv, Sound, Spares, IsImage
  <2>9. ReadyIsPlayable'
    BY <2>6 DEF Encode, PipelineInv, ReadyIsPlayable, Final, Finished, IsImage
  <2> QED
    BY <2>2, <2>3, <2>4, <2>5, <2>7, <2>8, <2>9 DEF PipelineInv
<1> QED
  BY <1>1, <1>2

LEMMA WriteImageInv ==
  ASSUME Alone, PipelineInv, NEW w \in Worker, WriteImage(w)
  PROVE  PipelineInv'
<1>1. PipelineTypeOK'
  BY DEF WriteImage, Written, Go, PipelineInv, PipelineTypeOK, Content, Task, Step
<1>2. Unborn'
  BY DEF WriteImage, PipelineInv, Unborn, Running
<1>3. Working'
  BY DEF WriteImage, Go, PipelineInv, Working, PipelineTypeOK, Running, Suits,
         StepsOf, Task, IsImage, Job
<1>4. Converting'
  BY DEF WriteImage, Written, Go, PipelineInv, Converting, PipelineTypeOK, Working,
         Task, Running, Alone, Gone
<1>5. Named'
  BY DEF WriteImage, Written, PipelineInv, Named, PipelineTypeOK, File, Uri, Gone
<1>6. Sound'
  <2>1. task[w].out = "staging" /\ good /\ IsImage
    BY DEF WriteImage, PipelineInv, PipelineTypeOK, Working, Converting, Task, Running,
           Suits, StepsOf, Job
  <2>2. disk' = disk \/ disk' = [disk EXCEPT !["staging"] = "fit"]
    BY <2>1 DEF WriteImage, Written
  <2> QED
    BY <2>1, <2>2 DEF WriteImage, PipelineInv, PipelineTypeOK, Sound, IsImage, File, Uri
<1>7. Spares'
  BY DEF WriteImage, Written, PipelineInv, Spares
<1>8. ReadyIsPlayable'
  BY DEF WriteImage, PipelineInv, ReadyIsPlayable, Working, Running
<1>9. Queued' /\ Editing'
  BY DEF WriteImage, PipelineInv, Queued, Editing, Suits, IsImage
<1> QED
  BY <1>1, <1>2, <1>3, <1>4, <1>5, <1>6, <1>7, <1>8, <1>9 DEF PipelineInv

LEMMA ReplaceInv ==
  ASSUME Alone, PipelineInv, NEW w \in Worker, Replace(w)
  PROVE  PipelineInv'
<1>1. PipelineTypeOK'
  BY DEF Replace, Go, Moved, Final, PipelineInv, PipelineTypeOK, File, Content, Task,
         Uri, Step
<1>2. Unborn'
  BY DEF Replace, PipelineInv, Unborn, Running
<1>3. Working'
  BY DEF Replace, Go, PipelineInv, Working, PipelineTypeOK, Running, Suits, StepsOf,
         Task, IsImage, Job, Alone
<1>4. Converting'
  BY DEF Replace, Moved, Final, PipelineInv, Converting, PipelineTypeOK, File, Task,
         Uri, Alone, Gone
<1>5. Named'
  BY DEF Replace, Moved, Final, PipelineInv, Named, PipelineTypeOK, File, Uri, Gone
<1>6. Sound'
  <2>1. disk["staging"] = "fit"
    BY DEF Replace, PipelineInv, Converting
  <2>2. disk' = disk \/ disk' = [disk EXCEPT ![Final] = "fit", !["staging"] = "none"]
    BY <2>1 DEF Replace, Moved
  <2>3. disk["staging"] = "fit" => good /\ IsImage
    BY DEF PipelineInv, Sound, File
  <2> QED
    BY <2>1, <2>2, <2>3 DEF Replace, PipelineInv, Sound, File, Uri, Final, IsImage,
       PipelineTypeOK
<1>7. Spares'
  BY DEF Replace, Moved, PipelineInv, Spares, Converting, Gone
<1>8. ReadyIsPlayable'
  BY DEF Replace, PipelineInv, ReadyIsPlayable, Working, Running
<1>9. Queued' /\ Editing'
  BY DEF Replace, PipelineInv, Queued, Editing, Suits, IsImage
<1> QED
  BY <1>1, <1>2, <1>3, <1>4, <1>5, <1>6, <1>7, <1>8, <1>9 DEF PipelineInv

LEMMA UnlinkInv ==
  ASSUME Alone, PipelineInv, NEW w \in Worker, Unlink(w)
  PROVE  PipelineInv'
<1>1. /\ disk' \in [File -> Content] /\ aged' \in SUBSET File /\ aged' \subseteq aged
      /\ \A f \in aged' : disk'[f] # "none"
      /\ disk'["webp"] = disk["webp"]
      /\ \A f \in File : disk'[f] \in {disk[f], "none"}
  BY RemovedType DEF Unlink, PipelineInv, File, Uri
<1>2. /\ Gone' /\ (Gone => Gone')
      /\ swallowed \subseteq swallowed' /\ swallowed' \in SUBSET Swallowed
      /\ "header" \in swallowed' => "header" \in swallowed
      /\ kind = "convert" /\ (row.live => row.processing)
  <2>1. kind = "convert" /\ (row.live => row.processing)
    BY DEF Unlink, PipelineInv, Converting, Working, Running
  <2>2. disk \in [File -> Content] /\ swallowed \in SUBSET Swallowed /\ "src" \in File
    BY DEF PipelineInv, PipelineTypeOK, File, Uri
  <2>3. CASE Removed("src") /\ swallowed' = swallowed
    BY <2>1, <2>2, <2>3 DEF Removed, Gone
  <2>4. CASE swallowed' = swallowed \union {"original"}
    BY <2>1, <2>2, <2>4 DEF Gone, Swallowed
  <2> QED
    BY <2>1, <2>3, <2>4 DEF Unlink
<1>3. task' \in [Worker -> Task] /\ used' \in [Bounds -> Nat]
  BY TaskType DEF Unlink, Use, PipelineInv, PipelineTypeOK, Step, Bounds
<1>4. PipelineTypeOK'
  BY <1>1, <1>2, <1>3 DEF Unlink, PipelineInv, PipelineTypeOK
<1>5. Unborn'
  BY DEF Unlink, PipelineInv, Unborn, Running
<1>6. Working'
  BY DEF Unlink, Go, PipelineInv, Working, PipelineTypeOK, Running, Suits, StepsOf,
         Task, IsImage, Job
<1>7. Converting'
  BY <1>1, <1>2 DEF Unlink, Go, PipelineInv, Converting, PipelineTypeOK, Final, Alone
<1>8. Named' /\ Editing' /\ Queued'
  BY <1>2 DEF Unlink, PipelineInv, Named, Editing, Queued, Suits, IsImage
<1>9. Sound' /\ Spares'
  BY <1>1, <1>2 DEF Unlink, PipelineInv, Sound, Spares, IsImage, File, Uri
<1>10. ReadyIsPlayable'
  BY <1>2 DEF Unlink, ReadyIsPlayable
<1> QED
  BY <1>4, <1>5, <1>6, <1>7, <1>8, <1>9, <1>10 DEF PipelineInv

LEMMA CommitInv ==
  ASSUME Alone, PipelineInv, NEW w \in Worker, Commit(w)
  PROVE  PipelineInv'
<1>1. /\ row' \in Row
      /\ row.live => /\ row'.live /\ ~row'.processing /\ ~row'.failed
                     /\ row'.uri = Final
      /\ ~row.live => row' = row
  <2>1. row' = Committed(w, Final) /\ Final \in Uri
    BY DEF Commit, Final, Uri
  <2> QED
    BY <2>1, RowTypes, CommittedRow DEF PipelineInv, IsReady
<1>2. PipelineTypeOK'
  BY <1>1 DEF Commit, Stop, Idle, NoRow, PipelineInv, PipelineTypeOK, Row, File, Task,
              Uri, Stamp, Job, Step
<1>3. Unborn'
  BY <1>1 DEF Commit, PipelineInv, Unborn, Running
<1>4. Working'
  BY <1>1 DEF Commit, Stop, Idle, PipelineInv, Working, Running, Alone, PipelineTypeOK
<1>5. Converting'
  BY <1>1 DEF Commit, Final, Stop, Idle, PipelineInv, Converting, Gone
<1>6. Named'
  BY <1>1 DEF Commit, Final, PipelineInv, Named, Converting, Gone
<1>7. Editing'
  BY <1>1 DEF Commit, PipelineInv, Editing, Working, Running
<1>8. Spares'
  BY <1>1 DEF Commit, PipelineInv, Spares, Converting, Gone
<1>9. ReadyIsPlayable'
  BY <1>1 DEF Commit, Final, PipelineInv, ReadyIsPlayable, PipelineTypeOK, Working,
              Converting, Finished, Task, Running, Suits, StepsOf, IsImage, Job,
         Gone
<1>10. Queued' /\ Sound'
  BY DEF Commit, PipelineInv, Queued, Sound, Suits, IsImage
<1> QED
  BY <1>2, <1>3, <1>4, <1>5, <1>6, <1>7, <1>8, <1>9, <1>10 DEF PipelineInv

LEMMA ProbeInv ==
  ASSUME Alone, PipelineInv, NEW w \in Worker, Probe(w)
  PROVE  PipelineInv'
<1>1. /\ row' \in Row
      /\ \/ row' = row
         \/ /\ row.live /\ row'.live /\ IsReady(row') /\ row'.uri = row.uri
            /\ good /\ Final = "src" /\ disk["src"] = Finished /\ ~Running(w)'
  <2>1. CASE row' = row
    BY <2>1 DEF PipelineInv, PipelineTypeOK
  <2>2. CASE row' = Committed(w, row.uri) /\ row' # row
    <3>1. row.uri \in Uri /\ task[w].snap.uri = "src" /\ Suits(task[w].job)
          /\ task[w].at \in StepsOf(task[w].job)
      BY DEF PipelineInv, PipelineTypeOK, Row, Working, Running, Probe
    <3>2. row' \in Row /\ row.live /\ row'.live /\ IsReady(row') /\ row'.uri = row.uri
      BY <2>2, <3>1, RowTypes, CommittedRow DEF PipelineInv
    <3>3. good /\ Final = "src" /\ disk["src"] = Finished /\ ~Running(w)'
      BY <2>2, <3>1 DEF Probe, PipelineInv, PipelineTypeOK, Sound, Final,
                        Finished, Suits, StepsOf, IsImage, Kind, File, Uri, Stop,
                        Idle, Running, Task, Job, Content
    <3> QED
      BY <3>2, <3>3
  <2> QED
    BY <2>1, <2>2 DEF Probe
<1>2. task' \in [Worker -> Task]
  BY TaskType DEF PipelineInv, PipelineTypeOK, Task, Probe, Step
<1>3. PipelineTypeOK'
  <2>1. used' \in [Bounds -> Nat]
    BY DEF Probe, Use, PipelineInv, PipelineTypeOK, Bounds
  <2> QED
    BY <1>1, <1>2, <2>1 DEF Probe, PipelineInv, PipelineTypeOK
<1>4. Unborn'
  BY <1>1 DEF Probe, PipelineInv, Unborn, Running
<1>5. Working'
  BY <1>1 DEF Probe, Go, Stop, Idle, PipelineInv, Working, PipelineTypeOK, Running,
              Suits, StepsOf, Task, IsImage, Job, Alone
<1>6. Converting'
  BY <1>1 DEF Probe, Go, Stop, Idle, PipelineInv, Converting, PipelineTypeOK, Task,
              Alone, Gone
<1>7. Named'
  BY <1>1 DEF Probe, PipelineInv, Named, Working, Running, Gone
<1>8. Editing'
  BY <1>1 DEF Probe, PipelineInv, Editing, Working, Running
<1>9. Spares'
  BY <1>1 DEF Probe, PipelineInv, Spares
<1>10. ReadyIsPlayable'
  BY <1>1 DEF Probe, PipelineInv, ReadyIsPlayable, Working, Named, Final, Finished,
              Running, IsImage, Gone
<1>11. Queued' /\ Sound'
  BY DEF Probe, PipelineInv, Queued, Sound, Suits, IsImage
<1> QED
  BY <1>3, <1>4, <1>5, <1>6, <1>7, <1>8, <1>9, <1>10, <1>11 DEF PipelineInv

LEMMA RejectInv ==
  ASSUME Alone, PipelineInv, NEW w \in Worker, Reject(w)
  PROVE  PipelineInv'
<1>1. /\ row' \in Row /\ row'.live = row.live /\ row'.processing = row.processing
      /\ row'.uri = row.uri /\ (~row.live => row' = row)
  <2>1. row' = Update(Metadata(w)) /\ "src" \in Uri
    BY DEF Reject, Uri
  <2> QED
    BY <2>1, RowTypes, RecordedRow DEF PipelineInv
<1>2. PipelineTypeOK'
  BY <1>1 DEF Reject, Go, PipelineInv, PipelineTypeOK, Task, Step
<1>3. Unborn'
  BY <1>1 DEF Reject, PipelineInv, Unborn, Running
<1>4. Working'
  BY <1>1 DEF Reject, Go, PipelineInv, Working, PipelineTypeOK, Running, Suits,
              StepsOf, Task, IsImage, Job
<1>5. Converting'
  BY <1>1 DEF Reject, Go, PipelineInv, Converting, Final, Gone
<1>6. Named'
  BY <1>1 DEF Reject, PipelineInv, Named, Gone
<1>7. Editing'
  BY <1>1 DEF Reject, PipelineInv, Editing, Working, Running
<1>8. Spares'
  BY <1>1 DEF Reject, PipelineInv, Spares
<1>9. ReadyIsPlayable'
  BY <1>1 DEF Reject, PipelineInv, ReadyIsPlayable, Working, Running
<1>10. Queued' /\ Sound'
  BY DEF Reject, PipelineInv, Queued, Sound, Suits, IsImage
<1> QED
  BY <1>2, <1>3, <1>4, <1>5, <1>6, <1>7, <1>8, <1>9, <1>10 DEF PipelineInv

LEMMA OnFailureInv ==
  ASSUME Alone, PipelineInv, NEW w \in Worker, OnFailure(w)
  PROVE  PipelineInv'
<1>1. row' \in Row
  <2>1. row' = SetError /\ "src" \in Uri
    BY DEF OnFailure, Uri
  <2> QED
    BY <2>1, RowTypes DEF PipelineInv
<1>2. PipelineTypeOK'
  BY <1>1 DEF OnFailure, Stop, Idle, NoRow, PipelineInv, PipelineTypeOK, Row, File,
              Task, Uri, Stamp, Job, Step
<1>3. Unborn'
  BY <1>1 DEF OnFailure, PipelineInv, Unborn, Running
<1>4. Working'
  BY <1>1 DEF OnFailure, Stop, Idle, PipelineInv, Working, Running, Alone,
              PipelineTypeOK
<1>5. Converting'
  BY <1>1 DEF OnFailure, SetError, Stop, Update, Idle, PipelineInv, Converting, Final,
         Gone
<1>6. Named'
  BY <1>1 DEF OnFailure, SetError, Update, PipelineInv, Named, Gone
<1>7. Editing'
  BY <1>1 DEF OnFailure, SetError, Update, PipelineInv, Editing, Working, Row, Running
<1>8. Spares'
  BY <1>1 DEF OnFailure, SetError, Update, PipelineInv, Spares
<1>9. ReadyIsPlayable'
  BY <1>1 DEF OnFailure, SetError, Update, PipelineInv, ReadyIsPlayable
<1>10. Queued' /\ Sound'
  BY DEF OnFailure, PipelineInv, Queued, Sound, Suits, IsImage
<1> QED
  BY <1>2, <1>3, <1>4, <1>5, <1>6, <1>7, <1>8, <1>9, <1>10 DEF PipelineInv

LEMMA OsErrorInv ==
  ASSUME Alone, PipelineInv, NEW w \in Worker, OsError(w)
  PROVE  PipelineInv'
<1>1. /\ queue' \in [Message -> Nat]
      /\ \A m \in Message : queue'[m] > 0 => Suits(m.job) \/ queue[m] > 0
  <2>1. CASE queue' = queue
    BY <2>1 DEF PipelineInv, PipelineTypeOK
  <2>2. CASE queue' = Put(queue, Msg(task[w].job, task[w].tries + 1))
             /\ task[w].tries < Tries(task[w].job)
    <3>1. task[w].job \in Job /\ task[w].tries + 1 \in 0..2
          /\ task[w].tries + 1 <= Tries(task[w].job) /\ Suits(task[w].job)
      BY <2>2 DEF PipelineInv, PipelineTypeOK, Working, Running, OsError, Opens, Task,
                  Job, Tries
    <3> QED
      BY <2>2, <3>1, MsgType, PutType DEF PipelineInv, PipelineTypeOK
  <2> QED
    BY <2>1, <2>2 DEF OsError
<1>2. task' \in [Worker -> Task]
  BY TaskType DEF PipelineInv, PipelineTypeOK, Task, OsError, Step
<1>3. PipelineTypeOK'
  <2>1. used' \in [Bounds -> Nat]
    BY DEF OsError, Use, PipelineInv, PipelineTypeOK, Bounds
  <2>2. /\ disk' \in [File -> Content] /\ aged' \in SUBSET File
        /\ \A f \in aged' : disk'[f] # "none"
    BY DEF OsError, Removed, PipelineInv, PipelineTypeOK, File, Content
  <2> QED
    BY <1>1, <1>2, <2>1, <2>2 DEF OsError, PipelineInv, PipelineTypeOK
<1>4. Unborn'
  BY <1>1 DEF OsError, Opens, PipelineInv, Unborn, Running
<1>5. Queued'
  BY <1>1 DEF OsError, PipelineInv, Queued, Suits, IsImage
<1>6. Working'
  BY <1>1 DEF OsError, Opens, Stop, Go, Idle, PipelineInv, Working, PipelineTypeOK,
              Running, Suits, StepsOf, Task, IsImage, Job
<1>7. Converting'
  BY <1>1 DEF OsError, Stop, Go, Idle, PipelineInv, Converting, PipelineTypeOK, Task,
              Alone, Gone
<1>8. Named'
  BY <1>1 DEF OsError, Removed, PipelineInv, Named, PipelineTypeOK, File, Uri, Gone
<1>9. Sound'
  BY <1>1 DEF OsError, Removed, PipelineInv, Sound, IsImage, PipelineTypeOK, File, Uri
<1>10. Spares'
  BY <1>1 DEF OsError, Removed, PipelineInv, Spares
<1>11. ReadyIsPlayable'
  BY <1>1 DEF OsError, Removed, PipelineInv, ReadyIsPlayable, PipelineTypeOK, Final,
              Finished, File, Uri, IsImage
<1>12. Editing'
  BY DEF OsError, PipelineInv, Editing
<1> QED
  BY <1>3, <1>4, <1>5, <1>6, <1>7, <1>8, <1>9, <1>10, <1>11, <1>12 DEF PipelineInv

LEMMA KillInv ==
  ASSUME Alone, PipelineInv, NEW w \in Worker, Kill(w)
  PROVE  PipelineInv'
<1>1. PipelineTypeOK'
  BY DEF Kill, Use, Stop, Idle, NoRow, PipelineInv, PipelineTypeOK, Row, File, Task,
         Uri, Bounds, Stamp, Job, Step
<1>2. Unborn'
  BY DEF Kill, PipelineInv, Unborn, Running
<1>3. Working'
  BY DEF Kill, Stop, Idle, PipelineInv, Working, Running, Suits, IsImage,
         PipelineTypeOK
<1>4. Converting'
  BY DEF Kill, Stop, Idle, PipelineInv, Converting, Final, Gone
<1>5. Queued' /\ Named' /\ Editing' /\ Sound' /\ Spares' /\ ReadyIsPlayable'
  BY DEF Kill, PipelineInv, Queued, Named, Editing, Sound, Spares,
         ReadyIsPlayable, Suits, IsImage, Final, Finished, Gone
<1> QED
  BY <1>1, <1>2, <1>3, <1>4, <1>5 DEF PipelineInv

LEMMA SweepLoadInv ==
  ASSUME Alone, PipelineInv, SweepLoad
  PROVE  PipelineInv'
<1>1. PipelineTypeOK'
  BY DEF SweepLoad, pool, PipelineInv, PipelineTypeOK
<1>2. Unborn'
  BY DEF SweepLoad, PipelineInv, Unborn
<1>3. Queued' /\ Working' /\ Converting' /\ Named' /\ Editing' /\ Sound' /\
      Spares' /\ ReadyIsPlayable'
  BY DEF SweepLoad, pool, PipelineInv, Queued, Working, Converting, Named, Editing,
         Sound, Spares, ReadyIsPlayable, Suits, Running, Final, IsImage, Gone
<1> QED
  BY <1>1, <1>2, <1>3 DEF PipelineInv

LEMMA SweepRowInv ==
  ASSUME Alone, PipelineInv, SweepRow
  PROVE  PipelineInv'
<1>1. /\ row' \in Row /\ queue' \in [Message -> Nat]
      /\ \A m \in Message : queue'[m] > 0 => Suits(m.job) \/ queue[m] > 0
  <2> DEFINE m == Msg(IF IsImage THEN "image" ELSE "video", 0)
  <2>1. row' \in {row, Stamped}
    BY DEF SweepRow
  <2>2. m \in Message /\ Suits(m.job)
    BY ReconcilerJob
  <2>3. queue' \in {queue, Put(queue, m)}
    BY DEF SweepRow
  <2> HIDE DEF m
  <2> QED
    BY <2>1, <2>2, <2>3, StampedType, PutType DEF PipelineInv, PipelineTypeOK
<1>2. PipelineTypeOK'
  BY <1>1 DEF SweepRow, NoRow, Use, PipelineInv, PipelineTypeOK, Row, Content, Uri,
              Stamp
<1>3. Unborn'
  BY <1>1 DEF SweepRow, PipelineInv, Unborn
<1>4. Queued'
  BY <1>1 DEF SweepRow, IsImage, PipelineInv, Queued, Suits
<1>5. Working'
  BY <1>1 DEF SweepRow, Stamped, IsImage, Update, PipelineInv, Working, Running,
              Suits, Row
<1>6. Converting'
  BY <1>1 DEF SweepRow, Stamped, Update, PipelineInv, Converting, Final, Gone
<1>7. Named'
  BY <1>1 DEF SweepRow, Stamped, Update, PipelineInv, Named, Row, Gone
<1>8. Editing'
  BY <1>1 DEF SweepRow, Stamped, Update, PipelineInv, Editing, Row
<1>9. Spares'
  BY <1>1 DEF SweepRow, Stamped, Update, PipelineInv, Spares, Row
<1>10. ReadyIsPlayable'
  BY <1>1 DEF SweepRow, Stamped, IsImage, Update, PipelineInv, ReadyIsPlayable, Final,
              Finished, Row
<1>11. Sound'
  BY DEF SweepRow, PipelineInv, Sound, IsImage
<1> QED
  BY <1>2, <1>3, <1>4, <1>5, <1>6, <1>7, <1>8, <1>9, <1>10, <1>11 DEF PipelineInv

LEMMA CleanBeginInv ==
  ASSUME Alone, PipelineInv, CleanBegin
  PROVE  PipelineInv'
<1>1. PipelineTypeOK'
  BY DEF CleanBegin, Removed, Expired, pool, PipelineInv, PipelineTypeOK, Content
<1>2. Unborn'
  BY DEF CleanBegin, pool, PipelineInv, Unborn, Running
<1>3. Converting'
  BY DEF CleanBegin, Removed, pool, PipelineInv, Converting, PipelineTypeOK, Final,
         File, Uri, Gone
<1>4. Named'
  BY DEF CleanBegin, Removed, PipelineInv, Named, PipelineTypeOK, File, Uri, Gone
<1>5. Sound'
  BY DEF CleanBegin, IsImage, Removed, PipelineInv, Sound, PipelineTypeOK, File, Uri
<1>6. Spares'
  BY DEF CleanBegin, PipelineInv, Spares
<1>7. ReadyIsPlayable'
  BY DEF CleanBegin, IsImage, Removed, PipelineInv, ReadyIsPlayable, PipelineTypeOK,
         Final, Finished, File, Uri
<1>8. Queued' /\ Working' /\ Editing'
  BY DEF CleanBegin, pool, PipelineInv, Queued, Working, Editing, Suits, Running,
         IsImage
<1> QED
  BY <1>1, <1>2, <1>3, <1>4, <1>5, <1>6, <1>7, <1>8 DEF PipelineInv

LEMMA CleanFileInv ==
  ASSUME Alone, PipelineInv, NEW f \in File, CleanFile(f)
  PROVE  PipelineInv'
<1>1. PipelineTypeOK'
  BY DEF CleanFile, Removed, pool, PipelineInv, PipelineTypeOK, Content
<1>2. Unborn'
  BY DEF CleanFile, Removed, pool, PipelineInv, Unborn, Running
<1>3. Converting'
  <2>1. /\ disk' \in [File -> Content] /\ aged' \subseteq aged
        /\ \A g \in File : disk'[g] \in {disk[g], "none"}
        /\ \A g \in File \ (clean \intersect aged) : disk'[g] = disk[g]
    BY DEF CleanFile, Expired, Removed, PipelineInv, PipelineTypeOK, Content
  <2>2. ASSUME NEW w \in Worker, task[w].at = "header", row.live PROVE disk'["src"] = disk["src"]
    <3>1. kind = "shrink" /\ row.uri = "src"
      BY <2>2 DEF PipelineInv, Converting, Working, Running, Named
    <3> QED
      BY <2>1, <2>2, <3>1 DEF PipelineInv, Spares, File, Uri
  <2>3. Gone => Gone'
    BY <2>1 DEF CleanFile, Gone, File, Uri
  <2> QED
    BY <2>1, <2>2, <2>3 DEF CleanFile, pool, PipelineInv, PipelineTypeOK, Converting, Final,
       File, Uri
<1>4. Named'
  BY DEF CleanFile, Removed, PipelineInv, Named, PipelineTypeOK, File, Uri, Gone
<1>5. Sound'
  BY DEF CleanFile, Removed, PipelineInv, Sound, IsImage, PipelineTypeOK, File, Uri
<1>6. Spares'
  BY DEF CleanFile, Removed, PipelineInv, Spares
<1>7. ReadyIsPlayable'
  BY DEF CleanFile, Expired, Removed, PipelineInv, ReadyIsPlayable, Spares, Final,
         Finished, File, IsImage, Uri, PipelineTypeOK
<1>8. Queued' /\ Working' /\ Editing'
  BY DEF CleanFile, pool, PipelineInv, Queued, Working, Editing, Suits, Running,
         IsImage
<1> QED
  BY <1>1, <1>2, <1>3, <1>4, <1>5, <1>6, <1>7, <1>8 DEF PipelineInv

LEMMA EditLoadInv ==
  ASSUME Alone, PipelineInv, EditLoad
  PROVE  PipelineInv'
<1>1. PipelineTypeOK'
  BY DEF EditLoad, Use, pool, PipelineInv, PipelineTypeOK, Bounds
<1>2. Unborn'
  BY DEF EditLoad, PipelineInv, Unborn
<1>3. Editing'
  BY PipelineAssumption DEF EditLoad, Serving, PipelineInv, Editing, Named, Alone,
         Gone
<1>4. Queued' /\ Working' /\ Converting' /\ Named' /\ Sound' /\ Spares' /\
      ReadyIsPlayable'
  BY DEF EditLoad, pool, PipelineInv, Queued, Working, Converting, Named, Sound,
         Spares, ReadyIsPlayable, Suits, Running, Final, IsImage, Finished, Gone
<1> QED
  BY <1>1, <1>2, <1>3, <1>4 DEF PipelineInv

LEMMA EditSaveInv ==
  ASSUME Alone, PipelineInv, EditSave
  PROVE  PipelineInv'
<1>1. /\ row' \in Row /\ row'.live /\ row'.processing = edit.processing
      /\ row'.failed = edit.failed /\ row'.uri = edit.uri
  BY DEF EditSave, PipelineInv, PipelineTypeOK, Row
<1>2. PipelineTypeOK'
  BY <1>1 DEF EditSave, NoRow, pool, PipelineInv, PipelineTypeOK, Row, Uri, Stamp
<1>3. Unborn'
  BY <1>1 DEF EditSave, PipelineInv, Unborn
<1>4. Working'
  BY <1>1 DEF EditSave, pool, PipelineInv, Working, Editing, Running, Suits, IsImage
<1>5. Converting'
  BY <1>1 DEF EditSave, pool, PipelineInv, Converting, Editing, Final, Gone
<1>6. Named'
  BY <1>1 DEF EditSave, PipelineInv, Named, Editing, Gone
<1>7. Editing'
  BY <1>1 DEF EditSave, NoRow, PipelineInv, Editing
<1>8. Spares'
  <2>1. CASE row'.uri = row.uri
    BY <1>1, <2>1 DEF EditSave, PipelineInv, Editing, Spares
  <2>2. CASE row'.uri # row.uri
    <3>1. row.live /\ row'.uri = "src" /\ row.uri = "webp"
      BY <1>1, <2>2 DEF EditSave, PipelineInv, PipelineTypeOK, Editing, Row, Uri
    <3>2. kind = "convert" /\ ("src" \notin aged \/ "original" \in swallowed)
      BY <3>1 DEF PipelineInv, PipelineTypeOK, Named, Gone
    <3> QED
      BY <1>1, <3>1, <3>2 DEF EditSave, Spares
  <2> QED
    BY <2>1, <2>2
<1>9. ReadyIsPlayable'
  BY <1>1 DEF EditSave, PipelineInv, ReadyIsPlayable, Editing, Final, Finished,
              IsImage
<1>10. Queued' /\ Sound'
  BY DEF EditSave, pool, PipelineInv, Queued, Sound, Suits, IsImage
<1> QED
  BY <1>2, <1>3, <1>4, <1>5, <1>6, <1>7, <1>8, <1>9, <1>10 DEF PipelineInv

LEMMA DeleteLoadInv ==
  ASSUME Alone, PipelineInv, DeleteLoad
  PROVE  PipelineInv'
<1>1. PipelineTypeOK'
  BY DEF DeleteLoad, Use, pool, PipelineInv, PipelineTypeOK, Row, Bounds
<1>2. Unborn'
  BY DEF DeleteLoad, PipelineInv, Unborn
<1>3. Converting'
  BY DEF DeleteLoad, pool, PipelineInv, Converting, Final, Gone
<1>4. Editing'
  BY PipelineAssumption DEF DeleteLoad, Serving, PipelineInv, Editing, Alone
<1>5. ReadyIsPlayable'
  BY DEF DeleteLoad, PipelineInv, ReadyIsPlayable, Final, Finished, IsImage
<1>6. Queued' /\ Working' /\ Named' /\ Sound' /\ Spares'
  BY DEF DeleteLoad, pool, PipelineInv, Queued, Working, Named, Sound, Spares,
         Suits, Running, IsImage, Gone
<1> QED
  BY <1>1, <1>2, <1>3, <1>4, <1>5, <1>6 DEF PipelineInv

LEMMA DeleteFileInv ==
  ASSUME Alone, PipelineInv, DeleteFile
  PROVE  PipelineInv'
<1>1. /\ disk' \in [File -> Content] /\ aged' \in SUBSET File /\ aged' \subseteq aged
      /\ \A f \in aged' : disk'[f] # "none"
      /\ disk'["staging"] = disk["staging"]
      /\ \A f \in File : disk'[f] \in {disk[f], "none"}
      /\ Gone => Gone'
  <2>1. delete.uri \in Uri /\ (Removed(delete.uri) \/ UNCHANGED <<disk, aged>>)
        /\ swallowed' = swallowed
    BY DEF DeleteFile, PipelineInv, PipelineTypeOK
  <2> QED
    BY <2>1, RemovedType DEF PipelineInv, File, Uri, Gone
<1>2. PipelineTypeOK'
  <2>1. used' \in [Bounds -> Nat]
    BY DEF DeleteFile, Use, PipelineInv, PipelineTypeOK, Bounds
  <2> QED
    BY <1>1, <2>1 DEF DeleteFile, pool, PipelineInv, PipelineTypeOK
<1>3. Unborn'
  BY DEF DeleteFile, PipelineInv, Unborn
<1>4. Converting'
  BY <1>1 DEF DeleteFile, pool, PipelineInv, PipelineTypeOK, Converting, Final
<1>5. Named' /\ Editing'
  BY <1>1 DEF DeleteFile, PipelineInv, Named, Editing
<1>6. Sound' /\ Spares'
  BY <1>1 DEF DeleteFile, PipelineInv, Sound, Spares, IsImage, File, Uri
<1>7. ReadyIsPlayable'
  BY DEF DeleteFile, ReadyIsPlayable
<1>8. Queued' /\ Working'
  BY DEF DeleteFile, pool, PipelineInv, Queued, Working, Suits, Running, IsImage
<1> QED
  BY <1>2, <1>3, <1>4, <1>5, <1>6, <1>7, <1>8 DEF PipelineInv

LEMMA DeleteRowInv ==
  ASSUME Alone, PipelineInv, DeleteRow
  PROVE  PipelineInv'
<1>1. PipelineTypeOK'
  BY DEF DeleteRow, NoRow, NotDeleting, pool, PipelineInv, PipelineTypeOK, Row, Uri,
         Stamp
<1>2. Unborn'
  BY DEF DeleteRow, PipelineInv, Unborn
<1>3. Working'
  BY DEF DeleteRow, NoRow, pool, PipelineInv, Working, Running, Suits, IsImage
<1>4. Converting'
  BY DEF DeleteRow, NoRow, pool, PipelineInv, Converting, Final, Gone
<1>5. Named'
  BY DEF DeleteRow, NoRow, PipelineInv, Named, Gone
<1>6. Editing'
  BY DEF DeleteRow, PipelineInv, Editing
<1>7. Spares'
  BY DEF DeleteRow, NoRow, PipelineInv, Spares
<1>8. ReadyIsPlayable'
  BY DEF DeleteRow, NoRow, PipelineInv, ReadyIsPlayable
<1>9. Queued' /\ Sound'
  BY DEF DeleteRow, pool, PipelineInv, Queued, Sound, Suits, IsImage
<1> QED
  BY <1>1, <1>2, <1>3, <1>4, <1>5, <1>6, <1>7, <1>8, <1>9 DEF PipelineInv

LEMMA AgeInv ==
  ASSUME Alone, PipelineInv, Age
  PROVE  PipelineInv'
<1>1. PipelineTypeOK'
  BY DEF Age, Use, File, pool, PipelineInv, PipelineTypeOK, Row, Stamp
<1>2. Unborn'
  BY DEF Age, pool, PipelineInv, Unborn, Running, PipelineTypeOK
<1>3. Working'
  BY DEF Age, pool, PipelineInv, Working, Running
<1>4. Converting'
  BY DEF Age, pool, PipelineInv, Converting, Gone
<1>5. Named'
  BY DEF Age, PipelineInv, Named, Gone
<1>6. Editing'
  BY DEF Age, Serving, Editing
<1>7. Spares'
  BY DEF Age, Spares
<1>8. ReadyIsPlayable'
  BY DEF Age, PipelineInv, ReadyIsPlayable, Final, Finished, IsImage
<1>9. Queued' /\ Sound'
  BY DEF Age, pool, PipelineInv, Queued, Sound, Suits, IsImage
<1> QED
  BY <1>1, <1>2, <1>3, <1>4, <1>5, <1>6, <1>7, <1>8, <1>9 DEF PipelineInv

-----------------------------------------------------------------------------
(* The pipeline *)

LEMMA PipelineInitInv == PipelineInit => PipelineInv
<1> SUFFICES ASSUME PipelineInit PROVE PipelineInv
  OBVIOUS
<1>1. NoRow \in Row /\ NewRow("none") \in Row /\ ~NoRow.live
      /\ NewRow("none").processing /\ NewRow("none").uri = "src"
  BY NewRowType DEF Stamp
<1>2. \A w \in Worker : task[w] = Idle /\ ~Running(w)
  BY DEF PipelineInit, Idle, Running
<1>3. /\ \/ upload = "none" /\ row = NoRow /\ disk = [f \in File |-> "none"]
         \/ upload = "done" /\ row = NewRow("none") /\ disk["webp"] = "none"
      /\ disk \in [File -> {"none", "whole"}]
  BY DEF PipelineInit, File, Uri
<1>4. PipelineTypeOK
  <2>1. task \in [Worker -> Task]
    BY <1>1 DEF PipelineInit, Idle, Task, Job, Step, File
  <2>2. NotDeleting \in [at : {"none", "file", "row"}, uri : Uri]
    BY DEF NotDeleting, Uri
  <2> QED
    BY <1>1, <1>3, <2>1, <2>2 DEF PipelineInit, PipelineTypeOK, Content
<1>5. Unborn /\ Queued /\ Working /\ Editing /\ Spares
  BY <1>1, <1>2, <1>3 DEF PipelineInit, Unborn, Queued, Working, Editing, Spares,
                          NotDeleting
<1>6. Converting
  BY <1>2 DEF Converting, Running, Gone
<1>7. Named /\ Sound /\ ReadyIsPlayable
  BY <1>1, <1>3 DEF Named, Sound, ReadyIsPlayable, Gone, File, Uri
<1> QED
  BY <1>4, <1>5, <1>6, <1>7 DEF PipelineInv

LEMMA PipelineStep ==
  ASSUME Alone, PipelineInv, [PipelineNext]_pipelineVars PROVE PipelineInv'
<1>1. CASE UNCHANGED pipelineVars
  <2>1. PipelineTypeOK' /\ Unborn'
    BY <1>1 DEF pipelineVars, pool, PipelineInv, PipelineTypeOK, Unborn, Running
  <2>5. Queued'
    BY <1>1 DEF pipelineVars, PipelineInv, Queued, Suits, IsImage
  <2>2. Working'
    BY <1>1 DEF pipelineVars, pool, PipelineInv, Working, Running, Suits, StepsOf, IsImage,
                Final, Finished
  <2>3. Converting' /\ Named'
    BY <1>1 DEF pipelineVars, pool, PipelineInv, Converting, Named, Running, Suits,
                StepsOf, IsImage, Final, Finished, Gone
  <2>4. Editing' /\ Sound' /\ Spares' /\ ReadyIsPlayable'
    BY <1>1 DEF pipelineVars, pool, PipelineInv, Editing, Sound, Spares,
                ReadyIsPlayable, Running, IsImage, Final, Finished
  <2> QED
    BY <2>1, <2>2, <2>3, <2>4, <2>5 DEF PipelineInv
<1>2. CASE Store \/ Create
  BY <1>2, StoreInv, CreateInv
<1>3. ASSUME NEW w \in Worker, Take(w) \/ Work(w) \/ OsError(w) \/ Kill(w)
      PROVE  PipelineInv'
  BY <1>3, TakeInv, FetchInv, FetchedInv, RecordInv, ChainInv, DecodeInv, HeaderInv,
     EncodeInv,
     WriteImageInv, ReplaceInv, UnlinkInv, CommitInv, ProbeInv, RejectInv,
     OnFailureInv, OsErrorInv, KillInv DEF Work
<1>4. CASE SweepLoad \/ SweepRow \/ CleanBegin \/ \E f \in File : CleanFile(f)
  BY <1>4, SweepLoadInv, SweepRowInv, CleanBeginInv, CleanFileInv
<1>5. CASE EditLoad \/ EditSave \/ DeleteLoad \/ DeleteFile \/ DeleteRow \/ Age
  BY <1>5, EditLoadInv, EditSaveInv, DeleteLoadInv, DeleteFileInv, DeleteRowInv, AgeInv
<1> QED
  BY <1>1, <1>2, <1>3, <1>4, <1>5 DEF PipelineNext

LEMMA PipelineInvariance == ASSUME Alone PROVE PipelineSpec => []PipelineInv
<1>1. PipelineInv /\ [PipelineNext]_pipelineVars => PipelineInv'
  BY PipelineStep
<1> QED
  BY <1>1, PipelineInitInv, PTL DEF PipelineSpec

\* Whatever fails, is killed, lost, retried or swept up, every variable of the
\* pipeline has its type; in particular, what is aged exists.
THEOREM PipelineTypes == ASSUME Alone PROVE PipelineSpec => []PipelineTypeOK
<1>1. PipelineInv => PipelineTypeOK
  BY DEF PipelineInv
<1> QED
  BY <1>1, PipelineInvariance, PTL

\* What leaves processing without an error can be played: no kill between two
\* writes, no retry, no save of a stale row and no sweep of the periodic tasks
\* leaves a row that is ready without its file (normalize_image_asset,
\* normalize_video_asset, reconcile_stuck_processing, cleanup).
THEOREM ReadyPlays == ASSUME Alone PROVE PipelineSpec => []ReadyIsPlayable
<1>1. PipelineInv => ReadyIsPlayable
  BY DEF PipelineInv
<1> QED
  BY <1>1, PipelineInvariance, PTL

\* cleanup() never removes the file that a row names, although it looked up the
\* references before (cleanup).
THEOREM LiveFilesStay == ASSUME Alone PROVE PipelineSpec => CleanupSparesLive
<1>1. ASSUME PipelineInv, NEW f \in File, CleanFile(f), row.live,
             disk[row.uri] # "none", "original" \notin swallowed
      PROVE  disk'[row.uri] = disk[row.uri]
  <2>1. row.uri \in File /\ row.uri \notin clean \intersect aged
        /\ disk \in [File -> Content]
    BY <1>1 DEF PipelineInv, PipelineTypeOK, Spares, Row, File
  <2>2. /\ f \in clean
        /\ \/ disk' = disk
           \/ f \in aged /\ disk' = [disk EXCEPT ![f] = "none"]
    BY <1>1 DEF CleanFile, Expired, Removed
  <2> QED
    BY <2>1, <2>2
<1>2. PipelineInv /\ [PipelineNext]_pipelineVars =>
        [\A f \in File : CleanFile(f) /\ row.live /\ disk[row.uri] # "none"
             /\ "original" \notin swallowed
           => disk'[row.uri] = disk[row.uri]]_pipelineVars
  BY <1>1
<1> QED
  BY <1>2, PipelineInvariance, PTL DEF PipelineSpec, CleanupSparesLive

\* A task takes nothing back: a second one, which the reconciler or a retry has
\* queued for an asset that is ready, leaves its row alone.
THEOREM ReadyStays == ASSUME Alone PROVE PipelineSpec => ReadyStaysReady
<1>1. ASSUME PipelineInv, NEW w \in Worker, Work(w), row.live, ~row.processing
      PROVE  row' = row
  <2>1. ~Running(w)
    BY <1>1 DEF PipelineInv, Working
  <2> QED
    BY <1>1, <2>1 DEF Running, Work, Fetch, Fetched, Record, Chain, Decode, Header, Encode,
       WriteImage, Replace, Unlink, Commit, Probe, Reject, OnFailure
<1>2. PipelineInv /\ [PipelineNext]_pipelineVars =>
        [\A w \in Worker : Work(w) /\ row.live /\ ~row.processing /\ ~row.failed
           => row' = row]_pipelineVars
  BY <1>1
<1> QED
  BY <1>2, PipelineInvariance, PTL DEF PipelineSpec, ReadyStaysReady
=============================================================================
