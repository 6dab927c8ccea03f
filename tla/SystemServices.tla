--------------------------- MODULE SystemServices ---------------------------
(***************************************************************************)
(* base/system/system.dyn.py and service_template.dyn.py: services are made *)
(* when they are first needed, each from those its template names, by any    *)
(* thread: the main one, and the workers that serve remote calls.  There is *)
(* no lock, and all threads share the stack that finds dependency loops.     *)
(* After the root service returns, close() runs the finalizers of generator  *)
(* services, the last made first, while workers may still be at work.       *)
(***************************************************************************)
EXTENDS Naturals, Sequences, FiniteSets, Functions, SequencesExt

CONSTANTS
    Thread, Main,   \* Main is the thread of System.run
    Service,
    Programs,    \* records: params, the service_params of a template; gens, the
                 \* services that are generators; broken, those whose function may
                 \* raise; raising, those whose finalizer raises, like system_failed
    MaxCalls,    \* MaxCalls[t]: bound on the calls of resolve_service by t
    None

ASSUME ServicesAssumption ==
    /\ \A prog \in Programs :
        /\ prog.params \in [Service -> Seq(Service)]
        /\ prog.gens \cup prog.broken \subseteq Service /\ prog.raising \subseteq prog.gens
    /\ Main \in Thread /\ MaxCalls \in [Thread -> Nat]
    /\ None \notin Service \cup {"loop", "broken", "empty"}

VARIABLES
    program,
    calls,       \* calls[t]: resolve_service calls made from outside
    frames,      \* frames[t]: nested calls, innermost first: the service, the step, and
                 \* the instances of its parameters so far
    error,       \* error[t]: the exception that unwinds the frames of t, or that main ended with
    instances,   \* every service made: its name, what it uses, and if it is made `late',
                 \* after close() began
    service,     \* _name_to_service, to an index of instances, 0 if there is none
    stack,       \* _resolve_stack
    finalizers,  \* _finalizers: records name, id, in the order of the first insertion
    phase,       \* "run", "close", "closed" or "raised"
    left,        \* close(): the position of its iterator, and the size it expects
    finalized,   \* the instances whose finalizer was called
    raised,      \* history: what resolve_service has raised
    overlap      \* history: two threads were making services at a time

threadVars == <<calls, frames, error>>
systemVars == <<instances, service, stack, finalizers>>
closeVars  == <<phase, left, finalized>>
vars == <<program, threadVars, systemVars, closeVars, raised, overlap>>

Top(t)    == Head(frames[t])
At(t, steps) == frames[t] # <<>> /\ error[t] = None /\ Top(t).step \in steps
Params(t) == program.params[Top(t).name]
Steps     == {"check", "push", "params", "pop", "store"}

TypeOK ==
    /\ program \in Programs
    /\ calls \in [Thread -> Nat]
    /\ frames \in [Thread -> Seq([name : Service, step : Steps, used : Seq(1 .. Len(instances)),
                                  made : 0 .. Len(instances)])]
    /\ error \in [Thread -> {None, "loop", "broken", "empty"}]
    /\ instances \in Seq([name : Service, uses : SUBSET (1 .. Len(instances)), late : BOOLEAN])
    /\ service \in [Service -> 0 .. Len(instances)]
    /\ stack \in Seq(Service) /\ IsInjective(stack)
    /\ finalizers \in Seq([name : Service, id : 1 .. Len(instances)])
    /\ \A i, j \in DOMAIN finalizers : finalizers[i].name = finalizers[j].name => i = j
    /\ phase \in {"run", "close", "closed", "raised"}
    /\ left \in [at : Nat, size : Nat] /\ left.at <= left.size
    /\ finalized \subseteq 1 .. Len(instances)
    /\ raised \subseteq {"loop", "broken", "empty"} /\ overlap \in BOOLEAN

Init ==
    /\ program \in Programs
    /\ calls = [t \in Thread |-> 0] /\ frames = [t \in Thread |-> <<>>]
    /\ error = [t \in Thread |-> None]
    /\ instances = <<>> /\ service = [s \in Service |-> 0]
    /\ stack = <<>> /\ finalizers = <<>>
    /\ phase = "run" /\ left = [at |-> 0, size |-> 0] /\ finalized = {}
    /\ raised = {} /\ overlap = FALSE

-----------------------------------------------------------------------------
Goto(t, step) == frames' = [frames EXCEPT ![t][1].step = step]

\* The innermost call returns an instance: to the template it is a parameter of, if any.
Returned(stk, id) == IF stk = <<>> THEN <<>> ELSE <<[Head(stk) EXCEPT !.used = Append(@, id)]>> \o Tail(stk)

\* resolve_service looks the service up.
LookUp(t, s) ==
    IF service[s] # 0
    THEN frames' = [frames EXCEPT ![t] = Returned(@, service[s])] /\ UNCHANGED overlap
    ELSE /\ frames' = [frames EXCEPT ![t] = <<[name |-> s, step |-> "check", used |-> <<>>, made |-> 0]>> \o @]
         /\ overlap' = (overlap \/ \E o \in Thread \ {t} : frames[o] # <<>>)

\* An exception is raised, or goes on, through the innermost call.  The caller of a
\* worker has it; System.run resolves the root service outside its try block, so that
\* the main thread keeps it and never comes to close().
Leave(t, x) ==
    /\ frames' = [frames EXCEPT ![t] = Tail(@)]
    /\ error' = [error EXCEPT ![t] = IF Len(frames[t]) = 1 /\ t # Main THEN None ELSE x]
    /\ raised' = raised \cup {x}

Resolve(t, s) ==
    /\ frames[t] = <<>> /\ error[t] = None /\ calls[t] < MaxCalls[t]
    /\ t = Main => phase = "run"
    /\ calls' = [calls EXCEPT ![t] = @ + 1]
    /\ LookUp(t, s)
    /\ UNCHANGED <<program, error, systemVars, closeVars, raised>>

\* _raise_service_loop is raised before the try block.
CheckLoop(t) ==
    /\ At(t, {"check"})
    /\ IF Top(t).name \in Range(stack)
       THEN Leave(t, "loop")
       ELSE Goto(t, "push") /\ UNCHANGED <<error, raised>>
    /\ UNCHANGED <<program, calls, systemVars, closeVars, overlap>>

\* A dict keeps the place of a key that it has.
Push(t) ==
    /\ At(t, {"push"})
    /\ stack' = IF Top(t).name \in Range(stack) THEN stack ELSE Append(stack, Top(t).name)
    /\ Goto(t, "params")
    /\ UNCHANGED <<program, calls, error, instances, service, finalizers, closeVars, raised, overlap>>

\* _resolve_service_args, bind_services.
NextParam(t) ==
    /\ At(t, {"params"})
    /\ Len(Top(t).used) < Len(Params(t))
    /\ LookUp(t, Params(t)[Len(Top(t).used) + 1])
    /\ UNCHANGED <<program, calls, error, systemVars, closeVars, raised>>

\* A dict keeps the place of a key that it has, and its value is the last one.
WithFinalizer(s, id) ==
    IF \E i \in DOMAIN finalizers : finalizers[i].name = s
    THEN [i \in DOMAIN finalizers |-> IF finalizers[i].name = s THEN [name |-> s, id |-> id] ELSE finalizers[i]]
    ELSE Append(finalizers, [name |-> s, id |-> id])

\* resolve_service_cfg_value, resolve_finalizer_gen_service_cfg_value: the function
\* is called and the finalizer added.  Mutated form: finalizers are put in front.
Made(t, fins) ==
    /\ At(t, {"params"}) /\ Len(Top(t).used) = Len(Params(t))
    /\ LET s == Top(t).name  id == Len(instances) + 1 IN
        /\ instances' = Append(instances, [name |-> s, uses |-> Range(Top(t).used), late |-> phase # "run"])
        /\ finalizers' = IF s \in program.gens THEN fins[s] ELSE finalizers
        /\ frames' = [frames EXCEPT ![t][1] = [@ EXCEPT !.step = "pop", !.made = id]]
    /\ UNCHANGED <<program, calls, error, service, stack, closeVars, raised, overlap>>
MakeInFront(t) == Made(t, [s \in Service |-> <<[name |-> s, id |-> Len(instances) + 1]>> \o finalizers])
Make(t) == Made(t, [s \in Service |-> WithFinalizer(s, Len(instances) + 1)])

MakeFails(t) ==
    /\ At(t, {"params"}) /\ Len(Top(t).used) = Len(Params(t))
    /\ Top(t).name \in program.broken
    /\ error' = [error EXCEPT ![t] = "broken"]
    /\ UNCHANGED <<program, calls, frames, systemVars, closeVars, raised, overlap>>

\* finally: _resolve_stack.popitem(), on return and on every exception.  Without
\* an item it raises KeyError itself.  Mutated form: not on exceptions.
PopOnReturn(t) ==
    /\ frames[t] # <<>> /\ (error[t] # None \/ Top(t).step = "pop")
    /\ stack' = IF stack = <<>> \/ error[t] # None THEN stack ELSE Front(stack)
    /\ IF error[t] # None THEN Leave(t, error[t])
       ELSE Goto(t, "store") /\ UNCHANGED <<error, raised>>
    /\ UNCHANGED <<program, calls, instances, service, finalizers, closeVars, overlap>>
Pop(t) ==
    /\ frames[t] # <<>> /\ (error[t] # None \/ Top(t).step = "pop")
    /\ stack' = IF stack = <<>> THEN <<>> ELSE Front(stack)
    /\ IF stack = <<>> THEN Leave(t, "empty")
       ELSE IF error[t] # None THEN Leave(t, error[t])
       ELSE Goto(t, "store") /\ UNCHANGED <<error, raised>>
    /\ UNCHANGED <<program, calls, instances, service, finalizers, closeVars, overlap>>

Store(t) ==
    /\ At(t, {"store"})
    /\ service' = [service EXCEPT ![Top(t).name] = Top(t).made]
    /\ frames' = [frames EXCEPT ![t] = Returned(Tail(@), Top(t).made)]
    /\ UNCHANGED <<program, calls, error, instances, stack, finalizers, closeVars, raised, overlap>>

-----------------------------------------------------------------------------
\* System.run: the root service has returned.
Close ==
    /\ phase = "run" /\ frames[Main] = <<>>
    /\ calls[Main] > 0 /\ error[Main] = None
    /\ phase' = "close"
    /\ left' = [at |-> Len(finalizers), size |-> Len(finalizers)]
    /\ UNCHANGED <<program, threadVars, systemVars, finalized, raised, overlap>>

\* One iteration: a dict that has grown raises RuntimeError, as may the finalizer.
Finalize ==
    /\ phase = "close"
    /\ IF left.size # Len(finalizers)
       THEN phase' = "raised" /\ UNCHANGED <<left, finalized>>
       ELSE IF left.at < 1
       THEN phase' = "closed" /\ UNCHANGED <<left, finalized>>
       ELSE /\ finalized' = finalized \cup {finalizers[left.at].id}
            /\ left' = [left EXCEPT !.at = @ - 1]
            /\ phase' = IF finalizers[left.at].name \in program.raising THEN "raised" ELSE phase
    /\ UNCHANGED <<program, threadVars, systemVars, raised, overlap>>

Step(t) ==
    \/ CheckLoop(t) \/ Push(t) \/ NextParam(t) \/ Make(t) \/ MakeFails(t)
    \/ Pop(t) \/ Store(t)
Next ==
    \/ \E t \in Thread : Step(t) \/ \E s \in Service : Resolve(t, s)
    \/ Close \/ Finalize

Spec == Init /\ [][Next]_vars

-----------------------------------------------------------------------------
\* d is in every set of services that has what s names, and with a service all that it
\* names: s depends on it, over any number of templates.
DependsOn(s, d) ==
    \A C \in SUBSET Service :
        Range(program.params[s]) \subseteq C /\ (\A e \in C : Range(program.params[e]) \subseteq C) => d \in C
OnLoop(s) == DependsOn(s, s)

\* While services are made by one thread at a time, whatever order they are asked
\* for in and whatever factories have failed before: a loop is reported only where
\* the templates have one, no name is left in the stack or missing there, a service
\* is made once, and all that use it have the same.
AloneIsSafe ==
    /\ TypeOK
    /\ ~overlap =>
        /\ "loop" \in raised => \E s \in Service : OnLoop(s)
        /\ "empty" \notin raised
        /\ (\A t \in Thread : frames[t] = <<>>) => stack = <<>>
        /\ \A i, j \in DOMAIN instances : instances[i].name = instances[j].name => i = j

\* However many threads make services, a service is finalized before what it uses,
\* unless it was made after close() began, or a twin made by another thread has taken
\* its place; and close() that does not raise leaves no other one out.
FinalizedInOrder ==
    /\ \A i \in finalized, j \in DOMAIN instances :
        (\E k \in DOMAIN finalizers : finalizers[k].id = j) /\ i \in instances[j].uses /\ ~instances[j].late
            => j \in finalized
    /\ phase = "closed" => \A k \in DOMAIN finalizers :
        finalizers[k].id \in finalized \/ instances[finalizers[k].id].late
=============================================================================
