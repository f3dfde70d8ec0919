------------------------------ MODULE ModuleInit ------------------------------
(***************************************************************************)
(* How dynloader._dijkstra is imported (the initialisation code of         *)
(* _dijkstra.c): one module object is made for an import, and executed.    *)
(* Executing it fills C statics the whole process shares, step by step;    *)
(* any step may fail, and the import may be tried again.                   *)
(*                                                                         *)
(* CPython is external.  An importer belongs to one interpreter.  It makes *)
(* the module object, enters it in the interpreter's sys.modules, executes *)
(* it, and takes it out of sys.modules if that failed.  Threads may switch *)
(* between making and executing (importlib's two steps can be called       *)
(* without its lock on the module); the interpreter lock is held during    *)
(* the execution.  A module taken out of sys.modules may be imported again.*)
(*                                                                         *)
(* The build is the default one: module state in statics, initialisation   *)
(* in two phases.  Module objects are numbered in the order they are made. *)
(***************************************************************************)
EXTENDS Integers, Sequences, FiniteSets

CONSTANTS
  Importers,      \* threads that import the module,
  InterpreterOf,  \*   and the interpreter of each
  MaxObjects,     \* bound on the module objects ever made
  Nothing         \* NULL, and nobody

Interpreters == {InterpreterOf[a] : a \in Importers}

Objects == 1 .. MaxObjects

\* The types every module the generator made shares in one process; the second
\* is the one whose size matters, for the first inherits its own.
SharedTypes == {"metatype", "function"}

\* What is under the name of a type in the module that keeps the shared types.
Fits == {"fits", "other size"}
Kept == {"absent", "no type"} \union Fits

VARIABLES
  main,       \* main_interpreter_id
  self,       \* __pyx_m
  statics,    \* which statics are filled, and the module dictionary they name
  names,      \* the names in the dictionary of each module object
  shared,     \* the shared types
  sysModules, \* what each interpreter finds under the module's name
  made,       \* the object each importer has made and not executed
  running,    \* the importer that is executing
  reached,    \*   and the step it is at
  outcome     \* what each importer's last import came to

importVars == <<main, self, statics, names, shared, sysModules, made, running, reached, outcome>>

ImportInit ==
  /\ main = Nothing /\ self = Nothing
  /\ statics = [dict |-> Nothing, filled |-> {}]
  /\ names = <<>>
  /\ shared \in [SharedTypes -> Kept]
  /\ sysModules = [i \in Interpreters |-> Nothing]
  /\ made = [a \in Importers |-> Nothing]
  /\ running = Nothing /\ reached = 1
  /\ outcome = [a \in Importers |-> "none"]

-----------------------------------------------------------------------------
(* The module object                                                       *)

\* check_single_interpreter: the first interpreter to import is the only one.
SingleInterpreter(a) ==
  /\ main \in {Nothing, InterpreterOf[a]}
  /\ main' = InterpreterOf[a]

Refused(a) == outcome' = [outcome EXCEPT ![a] = "error"]

OtherInterpreter(a) ==
  /\ running = Nothing /\ made[a] = Nothing
  /\ main \notin {Nothing, InterpreterOf[a]}
  /\ Refused(a)
  /\ UNCHANGED <<main, self, statics, names, shared, sysModules, made, running, reached>>

\* The names copy_spec_to_module copies; __path__ is for packages.
SpecNames == {"__loader__", "__file__", "__package__"}

\* pymod_create: the module that is there already, or a new one.
Create(a) ==
  /\ running = Nothing /\ made[a] = Nothing
  /\ SingleInterpreter(a)
  /\ IF self # Nothing
     THEN made' = [made EXCEPT ![a] = self] /\ UNCHANGED names
     ELSE /\ Len(names) < MaxObjects
          /\ names' = Append(names, SpecNames)
          /\ made' = [made EXCEPT ![a] = Len(names')]
  /\ outcome' = [outcome EXCEPT ![a] = "none"]
  /\ UNCHANGED <<self, statics, shared, sysModules, running, reached>>

\* A step of it fails, and the object is dropped; what it leaves is the
\* interpreter, which is the importer's.
CreateFails(a) ==
  /\ running = Nothing /\ made[a] = Nothing /\ self = Nothing
  /\ SingleInterpreter(a)
  /\ Refused(a)
  /\ UNCHANGED <<self, statics, names, shared, sysModules, made, running, reached>>

-----------------------------------------------------------------------------
(* Its execution                                                           *)

\* What pymod_exec does, in its order.
Steps == <<"dictionary", "builtins", "version", "empties", "constants", "globals",
           "methods", "code objects", "function type", "function", "test">>

\* The beginning of pymod_exec: a module is executed once.  (It would enter the
\* module in sys.modules itself, had the importer not done that.)
Exec(a) ==
  LET m == made[a]
  IN  /\ running = Nothing /\ m # Nothing
      /\ made' = [made EXCEPT ![a] = Nothing]
      /\ IF self = Nothing
         THEN /\ self' = m /\ running' = a /\ reached' = 1
              /\ sysModules' = [sysModules EXCEPT ![InterpreterOf[a]] = m]
              /\ UNCHANGED outcome
         ELSE /\ sysModules' = [sysModules EXCEPT ![InterpreterOf[a]] =
                                  IF self = m THEN m ELSE Nothing]
              /\ outcome' = [outcome EXCEPT ![a] = IF self = m THEN "imported" ELSE "error"]
              /\ UNCHANGED <<self, running, reached>>
      /\ UNCHANGED <<main, statics, names, shared>>

Step(step) ==
  /\ running # Nothing
  /\ reached <= Len(Steps) /\ Steps[reached] = step
  /\ reached' = reached + 1

Fill(objects) == statics' = [statics EXCEPT !.filled = @ \union objects]

Enter(m, entries) == names' = [names EXCEPT ![m] = @ \union entries]

Executing == UNCHANGED <<main, self, sysModules, made, running, outcome>>

Dictionary ==
  /\ Step("dictionary")
  /\ statics' = [statics EXCEPT !.dict = self]
  /\ Executing /\ UNCHANGED <<names, shared>>

Builtins ==
  /\ Step("builtins")
  /\ Fill({"builtins", "runtime"})
  /\ Enter(self, {"__builtins__"})
  /\ Executing /\ UNCHANGED shared

\* check_binary_version: at most a warning, which fails if warnings are errors.
BinaryVersion ==
  /\ Step("version")
  /\ Executing /\ UNCHANGED <<statics, names, shared>>

Empties ==
  /\ Step("empties")
  /\ Fill({"empty tuple", "empty bytes", "empty text"})
  /\ Executing /\ UNCHANGED <<names, shared>>

\* InitConstants: the strings, and the hash of each; the numbers.
Constants ==
  /\ Step("constants")
  /\ Fill({"strings", "numbers"})
  /\ Executing /\ UNCHANGED <<names, shared>>

\* VerifyCachedType: what is kept under a name is a type, and of the size the
\* module was compiled for, unless that is inherited.
Verified(t, kept) == kept \in Fits /\ (t = "function" => kept = "fits")

\* A new type is kept from now on, unless one was (SetDefault).
Keep(t) == shared' = [shared EXCEPT ![t] = IF @ = "absent" THEN "fits" ELSE @]

\* FetchCommonTypeFromSpec: the type that is kept, if it will do, or a new one.
Fetch(t) ==
  /\ shared[t] = "absent" \/ Verified(t, shared[t])
  /\ Keep(t)

\* InitGlobals, of which a default build has the metatype of the shared types.
Globals ==
  /\ Step("globals")
  /\ Fetch("metatype")
  /\ Fill({"metatype"})
  /\ Executing /\ UNCHANGED names

\* InitCachedBuiltins: where the methods of dict are looked up, and under which
\* of the strings.
Methods ==
  /\ Step("methods")
  /\ Fill({"methods"})
  /\ Executing /\ UNCHANGED <<names, shared>>

\* PyCode_New: a code object is made of these.
OfCode == {"empty tuple", "empty bytes", "strings"}

\* CreateCodeObjects: one function has a code object.
CodeObjects ==
  /\ Step("code objects")
  /\ Fill(IF OfCode \subseteq statics.filled THEN {"code"} ELSE {})
  /\ Executing /\ UNCHANGED <<names, shared>>

\* CyFunction_init: the type of compiled functions, which is of the metatype.
FunctionType ==
  /\ Step("function type")
  /\ Fetch("function")
  /\ Fill(IF "metatype" \in statics.filled THEN {"function type"} ELSE {})
  /\ Executing /\ UNCHANGED names

\* CyFunction_Init: a compiled function is made of these.
OfFunction == {"function type", "strings", "code"}

\* CyFunction_New; the function is entered in the dictionary the statics name.
Function ==
  /\ Step("function")
  /\ Enter(statics.dict, IF OfFunction \subseteq statics.filled THEN {"shortest_path"} ELSE {})
  /\ Executing /\ UNCHANGED <<statics, shared>>

Test ==
  /\ Step("test")
  /\ Enter(statics.dict, {"__test__"})
  /\ Executing /\ UNCHANGED <<statics, shared>>

Executed ==
  /\ running # Nothing /\ reached = Len(Steps) + 1
  /\ outcome' = [outcome EXCEPT ![running] = "imported"]
  /\ running' = Nothing /\ reached' = 1
  /\ UNCHANGED <<main, self, statics, names, shared, sysModules, made>>

\* Mutant: the error label leaves the static as it is.
FailedKeepingModule ==
  /\ running # Nothing /\ reached <= Len(Steps)
  /\ sysModules' = [sysModules EXCEPT ![InterpreterOf[running]] = Nothing]
  /\ Refused(running)
  /\ running' = Nothing /\ reached' = 1
  /\ UNCHANGED <<main, self, statics, names, shared, made>>

\* The error label.  Any step may fail, for want of memory if nothing else;
\* what it and the steps before it have filled stays filled.
Failed ==
  /\ running # Nothing /\ reached <= Len(Steps)
  /\ self' = Nothing
  /\ sysModules' = [sysModules EXCEPT ![InterpreterOf[running]] = Nothing]
  /\ Refused(running)
  /\ running' = Nothing /\ reached' = 1
  /\ UNCHANGED <<main, statics, names, shared, made>>

\* Somebody takes the module out of sys.modules.
Forget(i) ==
  /\ running = Nothing /\ sysModules[i] # Nothing
  /\ sysModules' = [sysModules EXCEPT ![i] = Nothing]
  /\ UNCHANGED <<main, self, statics, names, shared, made, running, reached, outcome>>

ImportNext ==
  \/ \E a \in Importers :
       OtherInterpreter(a) \/ Create(a) \/ CreateFails(a) \/ Exec(a)
  \/ Dictionary \/ Builtins \/ BinaryVersion \/ Empties \/ Constants \/ Globals
  \/ Methods \/ CodeObjects \/ FunctionType \/ Function \/ Test
  \/ Executed \/ Failed
  \/ \E i \in Interpreters : Forget(i)

\* Nobody imports: there is no process to share types in.
NoTypes == <<>>

ImportIdle ==
  /\ main = Nothing /\ self = Nothing
  /\ statics = [dict |-> Nothing, filled |-> {}]
  /\ names = <<>> /\ shared = NoTypes
  /\ sysModules = [i \in Interpreters |-> Nothing]
  /\ made = [a \in Importers |-> Nothing]
  /\ running = Nothing /\ reached = 1
  /\ outcome = [a \in Importers |-> "none"]

ImportSpec == ImportInit /\ [][ImportNext]_importVars

-----------------------------------------------------------------------------
(* Properties                                                              *)

\* What a call of shortest_path and its wrapper use.
Needed == {"builtins", "empty tuple", "strings", "numbers", "methods", "code", "function type"}

Whole(m) ==
  /\ {"__builtins__", "shortest_path", "__test__"} \subseteq names[m]
  /\ statics.dict = m /\ Needed \subseteq statics.filled
  /\ shared["metatype"] \in Fits /\ shared["function"] = "fits"

\* An import is all or nothing, whichever step failed before it and however
\* often: between two executions the process has one module object, whole, or
\* none; whoever was told that the import went through has it, and so has every
\* interpreter that finds the module, which is the first one that ever tried.
ImportIsAllOrNothing ==
  running = Nothing =>
    /\ self # Nothing => Whole(self)
    /\ \A a \in Importers : outcome[a] = "imported" => self # Nothing /\ main = InterpreterOf[a]
    /\ \A i \in Interpreters : sysModules[i] # Nothing => sysModules[i] = self /\ main = i
=============================================================================
