----------------------------- MODULE ProjectPlan -----------------------------
(***************************************************************************)
(* What a `rynk` hosts: the flags become a request (buildRequest()), the   *)
(* popup shows a plan of it and changes it (applySettings()), and the      *)
(* daemon merges it with rynk.yaml, the metadata and the detection         *)
(* (resolveProject()).  Each of these is a function from what is given to  *)
(* values; a value names the layer it is from, where that is all it tells. *)
(***************************************************************************)
EXTENDS ProjectDetection, Functions

VARIABLES
  files,     \* the facts of the directory
  named,     \* package.json has a name
  flags,     \* of the command line
  yaml,      \* of rynk.yaml
  stage,     \* "invoked", "asking", "deploying", "hosting", "refused", "failed", "cancelled"
  form,      \* what the popup shows, empty without one
  chosen,    \* the settings its user confirms
  request,   \* what is sent to the daemon
  project    \* what it resolves to

planVars == <<files, named, flags, yaml, stage, form, chosen, request, project>>

\* Layers are partial functions; of two that have a field, the one before @@ counts.
Nothing == <<>>
field :> value == [k \in {field} |-> value]
Merge(over, under) == [k \in DOMAIN over \cup DOMAIN under |-> IF k \in DOMAIN over THEN over[k] ELSE under[k]]
over @@ under == Merge(over, under)
Has(layer, field) == field \in DOMAIN layer
Get(layer, field, default) == IF Has(layer, field) THEN layer[field] ELSE default
Only(layer, fields) == Restrict(layer, fields \cap DOMAIN layer)
Given(condition, field, value) == [k \in {f \in {field} : condition} |-> value]

-----------------------------------------------------------------------------
(* The command line.                                                       *)

ExplicitFlags == {"command", "port", "host", "runtime", "name", "local", "lan", "public", "network",
                  "maxUsers", "protected"}

\* A plain `rynk` in a terminal, or --popup.
WantsPopup(o) == ~Has(o, "yes") /\ (Has(o, "popup") \/ ExplicitFlags \cap DOMAIN o = {})

Refused(o) == Has(o, "local") /\ (Has(o, "lan") \/ Has(o, "public"))

BuildRequest(o) ==
  Only(o, {"command", "port", "runtime", "name", "network", "maxUsers", "public", "protected"})
    @@ Given(Get(o, "host", "auto") # "auto", "host", "flag")
    @@ Given(Has(o, "local"), "exposure", "local")
    @@ Given(Has(o, "lan") \/ Has(o, "public"), "exposure", "lan")
    @@ Given(Has(o, "no-advertise"), "advertise", FALSE)
    @@ Given(Has(o, "no-restart"), "restart", "never")
    @@ Given(Has(o, "no-health-check"), "healthCheck", FALSE)

-----------------------------------------------------------------------------
(* The daemon.                                                             *)

Failure(code) == "error" :> code
Failed(p) == Has(p, "error")

\* Mutant of CliOverrides: a limit of 0 is none.
CliOverridesTruthy(r) ==
  Only(r, {"name", "runtime", "command", "port", "host", "exposure", "advertise", "healthCheck"})
    @@ Given(Get(r, "maxUsers", 0) # 0, "maxUsers", Get(r, "maxUsers", 0))
    @@ Given(Has(r, "protected"), "mode", IF Get(r, "protected", FALSE) THEN "protected" ELSE "open")
    @@ Given(Has(r, "restart"), "restart", Get(r, "restart", Absent))

\* cliOverrides(): a runtime of "auto" and a limit of 0 are given as well.
CliOverrides(r) ==
  Only(r, {"name", "runtime", "command", "port", "host", "exposure", "maxUsers", "advertise",
           "healthCheck"})
    @@ Given(Has(r, "protected"), "mode", IF Get(r, "protected", FALSE) THEN "protected" ELSE "open")
    @@ Given(Has(r, "restart"), "restart", Get(r, "restart", Absent))

Preferred(r) == IF Get(r, "runtime", "auto") = "auto" THEN Absent ELSE r.runtime

RuntimeOf(cli, y, det) ==
  LET asked == Get(cli @@ y, "runtime", "auto")
  IN  IF asked # "auto" THEN asked
      ELSE IF Has(cli @@ y, "command") /\ \A d \in det : d.runtime \in RunsWithoutCommand THEN "custom"
      ELSE IF det = {} THEN "native"
      ELSE (CHOOSE d \in det : TRUE).runtime

\* resolveProject().
Resolve(cli, y, det) ==
  LET layers == cli @@ y
      found == {d \in det : d.start # Absent}
      start == IF Has(layers, "command") THEN layers.command
               ELSE IF found = {} THEN Absent ELSE (CHOOSE d \in found : TRUE).start
      runtime == RuntimeOf(cli, y, det)
      exposure == Get(layers, "exposure", "lan")
  IN  IF start = Absent /\ runtime \notin RunsWithoutCommand THEN Failure("DETECTION_FAILED")
      ELSE [name |-> Get(layers, "name", IF named THEN "package" ELSE "folder"),
            runtime |-> runtime, start |-> start, exposure |-> exposure, port |-> Get(layers, "port", 0),
            host |-> Get(layers, "host", IF exposure = "local" THEN "127.0.0.1" ELSE "0.0.0.0"),
            defaultPort |-> IF det = {} THEN 0 ELSE (CHOOSE d \in det : TRUE).port,
            controllable |-> ~Has(layers, "command") /\ \E d \in det : d.controllable,
            health |-> IF ~Get(cli, "healthCheck", TRUE) THEN "process" ELSE Get(y, "health", "http"),
            restart |-> Get(layers, "restart", "on-failure"), mode |-> Get(layers, "mode", "open"),
            maxUsers |-> Get(layers, "maxUsers", 0),
            advertise |-> Get(layers, "advertise", exposure # "local")]

\* A rynk.yaml that is no YAML or breaks the schema, or has a command for a shell without
\* `shell: true`: it is refused, and not only where its values would be used.
ConfigInvalid(y) == Has(y, "invalid")

\* What the schema lets through, as far as anything here depends on it.
Schema(y) ==
  ConfigInvalid(y) \/ (Get(y, "command", "some") # Absent /\ Get(y, "mode", "open") \in {"open", "protected"})

\* plan() and run() resolve a request in the same way.
Plan(r) ==
  IF ConfigInvalid(yaml) THEN Failure("CONFIG_INVALID")
  ELSE Resolve(CliOverrides(r), yaml, Best(files, Preferred(r)))

\* A deployment is shared when its request or its exposure is public.
Shared(r, p) == Get(r, "public", FALSE) \/ p.exposure = "public"

-----------------------------------------------------------------------------
(* The popup.                                                              *)

\* What the CLI asks a plan for: not the exposure, the access nor the restarts.
PlanQuery(r) == Only(r, {"runtime", "command", "port", "name", "network"})

\* Mutant of PopupInit: the user limit is that of the flags.
PopupInitOfFlags(p, r) ==
  LET known(field, default) == IF Failed(p) THEN default ELSE p[field]
  IN  [name |-> known("name", "folder"), command |-> known("start", Absent), runtime |-> "auto",
       port |-> Get(r, "port", 0), host |-> Get(r, "host", "auto"), network |-> "address",
       exposure |-> IF Has(r, "public") THEN "public" ELSE known("exposure", "lan"),
       maxUsers |-> Get(r, "maxUsers", 0), protected |-> known("mode", "open") = "protected",
       autoRestart |-> known("restart", "on-failure") # "never",
       healthCheck |-> known("health", "http") \notin {"process", "none"},
       advertise |-> known("advertise", TRUE)]

\* The form: the plan, where there is one.
PopupInit(p, r) ==
  LET known(field, default) == IF Failed(p) THEN default ELSE p[field]
  IN  [name |-> known("name", "folder"), command |-> known("start", Absent), runtime |-> "auto",
       port |-> Get(r, "port", 0), host |-> Get(r, "host", "auto"), network |-> "address",
       exposure |-> IF Has(r, "public") THEN "public" ELSE known("exposure", "lan"),
       maxUsers |-> known("maxUsers", 0), protected |-> known("mode", "open") = "protected",
       autoRestart |-> known("restart", "on-failure") # "never",
       healthCheck |-> known("health", "http") \notin {"process", "none"},
       advertise |-> known("advertise", TRUE)]

\* The form has the same fields for every user, and its toggles are on or off.
Switches == {"protected", "autoRestart", "healthCheck", "advertise"}
PopupSettings(s) == DOMAIN s = DOMAIN form /\ \A f \in Switches : s[f] \in BOOLEAN

\* On top of the request: it can add to it and change it, and take nothing away.
ApplySettings(r, s, init) ==
  Given(s.name \notin {Absent, init.name}, "name", s.name)
    @@ Given(s.command # Absent /\ (s.command # init.command \/ s.runtime = "custom"), "command", s.command)
    @@ Given(s.runtime # "auto", "runtime", s.runtime)
    @@ Given(s.port # 0, "port", s.port)
    @@ Given(s.host # "auto", "host", s.host)
    @@ ("network" :> s.network)
    @@ ("exposure" :> IF s.exposure = "public" THEN "lan" ELSE s.exposure)
    @@ Given(s.exposure = "public", "public", TRUE)
    @@ [maxUsers |-> s.maxUsers, protected |-> s.protected, advertise |-> s.advertise]
    @@ Given(~s.autoRestart, "restart", "never")
    @@ Given(~s.healthCheck, "healthCheck", FALSE)
    @@ r

-----------------------------------------------------------------------------

Invoked ==
  /\ stage = "invoked" /\ form = Nothing /\ chosen = Nothing /\ request = Nothing
  /\ project = Nothing

Refuse ==
  /\ stage = "invoked" /\ Refused(flags) /\ stage' = "refused"
  /\ UNCHANGED <<files, named, flags, yaml, form, chosen, request, project>>

Ask ==
  /\ stage = "invoked" /\ ~Refused(flags) /\ WantsPopup(flags)
  /\ stage' = "asking" /\ request' = BuildRequest(flags)
  /\ form' = PopupInit(Plan(PlanQuery(request')), request')
  /\ UNCHANGED <<files, named, flags, yaml, chosen, project>>

AskNothing ==
  /\ stage = "invoked" /\ ~Refused(flags) /\ ~WantsPopup(flags)
  /\ stage' = "deploying" /\ request' = BuildRequest(flags)
  /\ UNCHANGED <<files, named, flags, yaml, form, chosen, project>>

\* Start Hosting, with the form as it is or changed.
Confirm(s) ==
  /\ stage = "asking" /\ PopupSettings(s)
  /\ stage' = "deploying" /\ chosen' = s /\ request' = ApplySettings(request, s, form)
  /\ UNCHANGED <<files, named, flags, yaml, form, project>>

Cancel ==
  /\ stage = "asking" /\ stage' = "cancelled"
  /\ UNCHANGED <<files, named, flags, yaml, form, chosen, request, project>>

HostProject ==
  /\ stage = "deploying" /\ project' = Plan(request)
  /\ stage' = IF Failed(project') THEN "failed" ELSE "hosting"
  /\ UNCHANGED <<files, named, flags, yaml, form, chosen, request>>

-----------------------------------------------------------------------------

\* Any directory, flags and rynk.yaml, where a command that is given is one.
PlanInit == Invoked /\ Get(flags, "command", "some") # Absent /\ Schema(yaml)

PlanNext == Refuse \/ Ask \/ AskNothing \/ Cancel \/ HostProject \/ \E s : Confirm(s)

PlanSpec == PlanInit /\ [][PlanNext]_planVars

-----------------------------------------------------------------------------

Started == stage \in {"hosting", "failed"}

\* What a project amounts to: who can reach it, and whether it is probed.
Effect(r, p) ==
  IF Failed(p) THEN p
  ELSE [p EXCEPT !.exposure = IF Shared(r, p) THEN "public" ELSE p.exposure,
                 !.health = IF p.health \in {"process", "none"} THEN "none" ELSE p.health]

\* A plan fails only where nothing the detectors have found can be started: what they are
\* sure of is ordered so that a result without a command never hides one that runs.
\* Excepted: a runtime that was asked for, and a deno.json without tasks, which ties with
\* dist/index.html and is registered first.
StartsIfItCan ==
  LET detected == Get(CliOverrides(request) @@ yaml, "runtime", "auto") = "auto"
  IN  detected /\ project = Failure("DETECTION_FAILED") =>
        \A r \in Results(files) :
          ~CanStart(r) \/ (r.detector = "static" /\ {"deno.json", "dist/index.html"} \subseteq files)

\* The popup asks its plan for none of these flags, may show something else and sends that.
NotAsked == {"local", "lan", "public", "maxUsers", "protected", "no-advertise"}

\* docs/popup.md:4, "It shows what Rynk detected and lets you change it": Start Hosting
\* with the form as it came hosts what `rynk --yes` would, through the plan, the form, the
\* settings, the request and rynk.yaml below it; except for the flags in NotAsked.
PopupLeftAlone ==
  Started /\ chosen # Nothing /\ chosen = form /\ NotAsked \cap DOMAIN flags = {} =>
    Effect(request, project) = Effect(BuildRequest(flags), Plan(BuildRequest(flags)))

\* What the user restricts, names or sets in the form is what is hosted, whatever flags,
\* rynk.yaml, package.json and detectors say.  The form cannot give back what a flag or
\* rynk.yaml took (restarts, probes, an automatic port or host), nor take --public back.
PopupIsObeyed ==
  stage = "hosting" /\ chosen # Nothing =>
    /\ <<project.maxUsers, project.advertise>> = <<chosen.maxUsers, chosen.advertise>>
    /\ (project.mode = "protected") = chosen.protected
    /\ IF chosen.exposure = "public" THEN Shared(request, project) /\ project.exposure = "lan"
       ELSE /\ project.exposure = chosen.exposure
            /\ Shared(request, project) => Has(flags, "public")
    /\ ~chosen.autoRestart => project.restart = "never"
    /\ ~chosen.healthCheck => project.health \in {"process", "none"}
    /\ chosen.port # 0 => project.port = chosen.port
    /\ chosen.host # "auto" => project.host = chosen.host
    /\ chosen.runtime # "auto" => project.runtime = chosen.runtime
    /\ chosen.name \notin {Absent, form.name} => project.name = chosen.name
    /\ chosen.command # Absent /\ chosen.runtime \in {"auto", "custom"} => project.start = chosen.command
=============================================================================
