-------------------------- MODULE ProjectDetection --------------------------
(***************************************************************************)
(* packages/detector: what the built-in detectors make of a directory, and *)
(* which of their results a deployment uses.  A directory is the set of    *)
(* the facts that the detectors read: a file that exists, or something     *)
(* that one contains.  Warnings, evidence and installation are left out.   *)
(***************************************************************************)
EXTENDS Naturals, FiniteSets

Absent == "none"

\* Whether the port can be passed to the command, by flag or variable.
Settable == TRUE
Fixed == FALSE

\* confidence in hundredths; start: the command, Absent where it was not found or the
\* runtime needs none; controllable: the port is Settable.
Result(detector, runtime, confidence, start, port, controllable) ==
  [detector |-> detector, runtime |-> runtime, confidence |-> confidence, start |-> start,
   port |-> port, controllable |-> controllable]

Native(detector, confidence, start, port, controllable) ==
  Result(detector, "native", confidence, start, port, controllable)

-----------------------------------------------------------------------------
(* The detectors: the set of their result, empty where they see nothing.   *)

\* Mutant of Node: the confidence is that of a project that has a start command.
NodeSure(f) ==
  LET start == IF "script" \in f THEN "run-script" ELSE IF "entry" \in f THEN "node-entry" ELSE Absent
  IN  IF "package.json" \notin f THEN {}
      ELSE {Native("node", IF "framework" \in f THEN 92 ELSE 80, start,
                   IF "framework" \in f THEN 5173 ELSE 3000, {"script", "calls-framework"} \subseteq f)}

\* A script of package.json, or an entry file.  Flags are passed to a framework that the
\* script calls by its name.
Node(f) ==
  LET start == IF "script" \in f THEN "run-script" ELSE IF "entry" \in f THEN "node-entry" ELSE Absent
  IN  IF "package.json" \notin f THEN {}
      ELSE {Native("node",
                   IF start = Absent THEN 30 ELSE IF "framework" \in f THEN 92 ELSE 80, start,
                   IF "framework" \in f THEN 5173 ELSE 3000, {"script", "calls-framework"} \subseteq f)}

PythonMarkers == {"requirements.txt", "manage.py"}

Python(f) ==
  LET is(framework) == framework \in f
      found(confidence, start, port) == {Native("python", confidence, start, port, Settable)}
  IN  IF f \cap (PythonMarkers \cup {"main.py"}) = {} THEN {}
      ELSE IF is("manage.py") \/ is("django") THEN found(93, "manage.py-runserver", 8000)
      ELSE IF is("fastapi") THEN found(IF "FastAPI()" \in f THEN 92 ELSE 70, "uvicorn", 8000)
      ELSE IF is("streamlit") THEN found(90, "streamlit-run", 8501)
      ELSE IF is("gradio") THEN found(88, "python-app.py", 7860)
      ELSE IF is("flask") THEN found(90, "flask-run", 5000)
      ELSE IF "main.py" \in f THEN {Native("python", 60, "python-main.py", 8000, Fixed)}
      ELSE {Native("python", 30, Absent, 8000, Fixed)}

Go(f) == IF "go.mod" \in f THEN {Native("go", 85, "go-run", 8080, Fixed)} ELSE {}

Rust(f) ==
  IF "Cargo.toml" \in f
  THEN {Native("rust", 85, "cargo-run", IF "rocket" \in f THEN 8000 ELSE 8080, "rocket" \in f)} ELSE {}

\* Maven without Spring or Quarkus has no command; Gradle has `run`.
Java(f) ==
  LET known == f \cap {"spring-boot", "quarkus"} # {}
      start == IF known THEN "run-framework" ELSE IF "pom.xml" \in f THEN Absent ELSE "gradle-run"
  IN  IF f \cap {"pom.xml", "build.gradle"} = {} THEN {}
      ELSE {Native("java", IF start = Absent THEN 35 ELSE IF known THEN 90 ELSE 70, start, 8080, known)}

Php(f) ==
  LET index == "index.php" \in f
  IN  IF f \cap {"composer.json", "artisan", "index.php"} = {} THEN {}
      ELSE IF "artisan" \in f THEN {Native("php", 92, "artisan-serve", 8000, Settable)}
      ELSE {Native("php", IF index THEN 75 ELSE 40, "php-S", 8000, Settable)}

Ruby(f) ==
  IF f \cap {"Gemfile", "config.ru"} = {} THEN {}
  ELSE IF "rails" \in f THEN {Native("ruby", 92, "rails-server", 3000, Settable)}
  ELSE IF "config.ru" \in f THEN {Native("ruby", 80, "rackup", 9292, Settable)}
  ELSE {Native("ruby", 30, Absent, 0, Fixed)}

Dotnet(f) ==
  IF "csproj" \in f
  THEN {Native("dotnet", IF "Sdk.Web" \in f THEN 90 ELSE 60, "dotnet-run", 5000, Settable)} ELSE {}

Deno(f) ==
  LET task == "deno-task" \in f
  IN  IF "deno.json" \in f
      THEN {Native("deno", IF task THEN 88 ELSE 40, IF task THEN "deno-task" ELSE Absent, 8000, Fixed)}
      ELSE {}

Docker(f) ==
  IF "Dockerfile" \in f
  THEN {Result("docker", "docker", 60, Absent, IF "EXPOSE" \in f THEN 80 ELSE 0, Settable)} ELSE {}

Compose(f) ==
  IF "compose.yaml" \in f
  THEN {Result("compose", "compose", 65, Absent, IF "ports" \in f THEN 80 ELSE 0, Fixed)} ELSE {}

\* The line `web:`, if a shell is not needed for it.
Procfile(f) ==
  IF ~{"Procfile", "web:"} \subseteq f THEN {}
  ELSE IF "shell-syntax" \in f THEN {Result("procfile", "custom", 20, Absent, 0, Fixed)}
  ELSE {Result("procfile", "custom", 78, "web-command", 0, Settable)}

\* index.html, or one in a directory of its own.
Static(f) ==
  IF f \cap {"index.html", "dist/index.html"} = {} THEN {}
  ELSE {Result("static", "static", IF "index.html" \in f THEN 50 ELSE 40, Absent, 8080, Settable)}

Compiled(f) ==
  IF "build.zig" \in f THEN {Native("compiled", 70, "zig-build-run", 8080, Fixed)}
  ELSE IF "CMakeLists.txt" \in f THEN {Native("compiled", 30, Absent, 0, Fixed)}
  ELSE IF "Makefile" \in f /\ "package.json" \notin f THEN {Native("compiled", 20, Absent, 0, Fixed)}
  ELSE {}

\* BUILTIN_DETECTORS, in the order of their registration.
Order == <<"node", "python", "go", "rust", "java", "php", "ruby", "dotnet", "deno", "docker",
           "compose", "procfile", "static", "compiled">>

Results(f) ==
  UNION {Node(f), Python(f), Go(f), Rust(f), Java(f), Php(f), Ruby(f), Dotnet(f), Deno(f), Docker(f),
         Compose(f), Procfile(f), Static(f), Compiled(f)}

-----------------------------------------------------------------------------
(* DetectorRegistry.detect().                                              *)

Place(r) == CHOOSE i \in DOMAIN Order : Order[i] = r.detector

\* A stable sort by confidence, the results of a preferred runtime before the others.
Before(r, s, prefer) ==
  \/ r.runtime = prefer /\ s.runtime # prefer
  \/ /\ (r.runtime = prefer) = (s.runtime = prefer)
     /\ r.confidence > s.confidence \/ (r.confidence = s.confidence /\ Place(r) < Place(s))

First(results, prefer) ==
  CHOOSE r \in results : \A s \in results \ {r} : Before(r, s, prefer)

\* The result that is used, as a set.
Best(f, prefer) == IF Results(f) = {} THEN {} ELSE {First(Results(f), prefer)}

\* What adapters run without a command.
RunsWithoutCommand == {"docker", "compose", "static"}

CanStart(r) == r.start # Absent \/ r.runtime \in RunsWithoutCommand
=============================================================================
