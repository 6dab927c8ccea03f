------------------------ MODULE SystemServicesProofs ------------------------
(* Services and their finalizers, for any templates, any threads and any    *)
(* number of calls.                                                         *)
EXTENDS SystemServices, SequenceTheorems, TLAPS

Frame    == [name : Service, step : Steps, used : Seq(Nat), made : Nat]
Instance == [name : Service, uses : SUBSET Nat, late : BOOLEAN]

\* What a call is at, and whether its name is in _resolve_stack.
Pushed(f) == f.step \in {"params", "pop"}

\* Types, in a form that does not grow with the instances.
ShapeInv ==
    /\ program \in Programs
    /\ calls \in [Thread -> Nat]
    /\ frames \in [Thread -> Seq(Frame)]
    /\ error \in [Thread -> {None, "loop", "broken", "empty"}]
    /\ instances \in Seq(Instance)
    /\ service \in [Service -> Nat]
    /\ stack \in Seq(Service) /\ IsInjective(stack)
    /\ finalizers \in Seq([name : Service, id : Nat])
    /\ phase \in {"run", "close", "closed", "raised"}
    /\ left \in [at : Nat, size : Nat]
    /\ finalized \subseteq DOMAIN instances
    /\ raised \subseteq {"loop", "broken", "empty"} /\ overlap \in BOOLEAN

\* Instance i of N is of service s: an instance is looked up, passed and finalized for
\* its own service.
IsOf(N, i, s) == i \in DOMAIN N /\ N[i].name = s
NameInv ==
    /\ \A s \in Service : service[s] # 0 => IsOf(instances, service[s], s)
    /\ \A k \in DOMAIN finalizers : IsOf(instances, finalizers[k].id, finalizers[k].name)
    /\ \A j \in DOMAIN instances : \A i \in instances[j].uses :
        \E s \in Range(program.params[instances[j].name]) : IsOf(instances, i, s)

\* A call has got an instance for each of its first parameters, and is at the next one
\* while another call is nested in it.  One that has made its instance knows it.
UsedInv(P, N, f) ==
    /\ Len(f.used) <= Len(P[f.name])
    /\ \A n \in DOMAIN f.used : IsOf(N, f.used[n], P[f.name][n])
    /\ f.made # 0 => IsOf(N, f.made, f.name)
    /\ f.step \in {"pop", "store"} => f.made # 0
IsAt(P, f, s) ==
    /\ f.step = "params"
    /\ Len(f.used) < Len(P[f.name])
    /\ P[f.name][Len(f.used) + 1] = s
StackInv(P, N, fr) ==
    /\ \A i \in DOMAIN fr : UsedInv(P, N, fr[i])
    /\ \A i \in 2 .. Len(fr) : IsAt(P, fr[i], fr[i - 1].name)
CallInv ==
    \A t \in Thread :
        /\ StackInv(program.params, instances, frames[t])
        /\ error[t] # None /\ frames[t] # <<>> => Top(t).step = "params"

\* _finalizers has each generator service that was made, once, and after the ones that
\* its template names.
OrderInv ==
    /\ \A k, l \in DOMAIN finalizers : finalizers[k].name = finalizers[l].name => k = l
    /\ \A j \in DOMAIN instances : instances[j].name \in program.gens =>
        \E k \in DOMAIN finalizers : finalizers[k].name = instances[j].name
    /\ \A k \in DOMAIN finalizers :
        /\ finalizers[k].name \in program.gens
        /\ \A d \in Range(program.params[finalizers[k].name]) \cap program.gens :
            \E l \in DOMAIN finalizers : l < k /\ finalizers[l].name = d

\* What close() has passed is finalized, or made after it began; what is finalized has
\* been passed.
CloseInv ==
    /\ left.at <= left.size /\ left.size <= Len(finalizers)
    /\ phase = "run" => finalized = {} /\ \A j \in DOMAIN instances : ~instances[j].late
    /\ phase # "run" => \A k \in DOMAIN finalizers :
        k > left.at => finalizers[k].id \in finalized \/ instances[finalizers[k].id].late
    /\ phase = "closed" => left.at = 0
    /\ \A i \in finalized : \E k \in DOMAIN finalizers :
        k > left.at /\ finalizers[k].name = instances[i].name

IInv == ShapeInv /\ NameInv /\ CallInv /\ OrderInv /\ CloseInv

\* While there is no overlap: one thread has calls; the stack is the names of those that
\* are pushed, the innermost last; each call depends on those above it; none of their
\* services is there; and an instance is that of its service, or about to be.
Depth(fr) == IF fr # <<>> /\ ~Pushed(Head(fr)) THEN Len(fr) - 1 ELSE Len(fr)
StackOf(stk, srv, fr) ==
    /\ Len(stk) = Depth(fr)
    /\ \A m \in 1 .. Len(stk) : stk[m] = fr[Len(fr) + 1 - m].name
    /\ \A i, j \in 1 .. Len(fr) : i < j => DependsOn(fr[j].name, fr[i].name)
    /\ \A i \in 1 .. Len(fr) : srv[fr[i].name] = 0
    /\ fr # <<>> /\ Head(fr).step \in {"push", "store"} => Head(fr).name \notin Range(stk)
OwnerInv ==
    \A i \in DOMAIN instances :
        service[instances[i].name] = i \/ \E t \in Thread : At(t, {"pop", "store"}) /\ Top(t).made = i
RaisedInv ==
    /\ "loop" \in raised => \E s \in Service : OnLoop(s)
    /\ "empty" \notin raised
    /\ \A t \in Thread : error[t] \in {"loop", "empty"} => error[t] \in raised
AloneInv ==
    /\ \A t, u \in Thread : frames[t] # <<>> /\ frames[u] # <<>> => t = u
    /\ (\A t \in Thread : frames[t] = <<>>) => stack = <<>>
    /\ \A t \in Thread : frames[t] # <<>> => StackOf(stack, service, frames[t])
    /\ OwnerInv /\ RaisedInv
AInv == ~overlap => AloneInv

-----------------------------------------------------------------------------
\* A function on 1 .. n is a sequence.
OnFirst(f, n, S) == n \in Nat /\ f \in [1 .. n -> S]

\* As the library has it.
LEMMA FirstIsSeq ==
  ASSUME NEW S, NEW n, NEW f, OnFirst(f, n, S)
  PROVE  f \in Seq(S)
<1>1. n \in Nat /\ f \in [1 .. n -> S]
  BY DEF OnFirst
<1> QED
  BY <1>1, SeqDef

\* Stacks of calls: a call on top, one that is replaced, one that ends.
LEMMA StackTop ==
  ASSUME NEW fr \in Seq(Frame), fr # <<>>
  PROVE  /\ Head(fr) = fr[1] /\ Head(fr) \in Frame /\ Len(fr) \in Nat \ {0}
         /\ 1 \in DOMAIN fr /\ DOMAIN fr = 1 .. Len(fr)
         /\ Tail(fr) \in Seq(Frame) /\ Len(Tail(fr)) = Len(fr) - 1
         /\ \A i \in 1 .. Len(fr) - 1 : Tail(fr)[i] = fr[i + 1]
<1>1. Len(fr) \in Nat \ {0} /\ DOMAIN fr = 1 .. Len(fr)
  BY EmptySeq, LenProperties
<1>2. /\ Head(fr) \in Frame /\ Tail(fr) \in Seq(Frame) /\ Len(Tail(fr)) = Len(fr) - 1
      /\ \A i \in 1 .. Len(Tail(fr)) : Tail(fr)[i] = fr[i + 1]
  BY HeadTailProperties
<1>3. Head(fr) = fr[1]
  OBVIOUS
<1> QED
  BY <1>1, <1>2, <1>3

\* A stack with a call on top.
LEMMA PushedOn ==
  ASSUME NEW fr \in Seq(Frame), NEW f \in Frame, NEW r, r = <<f>> \o fr
  PROVE  /\ r \in Seq(Frame) /\ Len(r) = Len(fr) + 1 /\ r # <<>> /\ Head(r) = f /\ r[1] = f
         /\ \A i \in 1 .. Len(fr) : r[i + 1] = fr[i]
<1> DEFINE top == <<f>>
<1>1. top \in Seq(Frame) /\ Len(top) = 1 /\ top[1] = f /\ r = top \o fr
  OBVIOUS
<1> HIDE DEF top
<1>2. Len(fr) \in Nat
  BY LenProperties
<1>3. /\ r \in Seq(Frame) /\ Len(r) = Len(top) + Len(fr)
      /\ \A i \in 1 .. Len(top) + Len(fr) : r[i] = IF i <= Len(top) THEN top[i] ELSE fr[i - Len(top)]
  BY <1>1, ConcatProperties
<1>4. \A i \in 1 .. Len(fr) : r[i + 1] = fr[i]
  <2> TAKE i \in 1 .. Len(fr)
  <2>1. i + 1 \in 1 .. 1 + Len(fr) /\ ~(i + 1 <= 1) /\ (i + 1) - 1 = i
    BY <1>2
  <2> QED
    BY <1>1, <1>3, <2>1
<1>5. r # <<>> /\ r[1] = f /\ Len(r) = Len(fr) + 1
  BY <1>1, <1>2, <1>3, EmptySeq
<1>6. Head(r) = r[1]
  BY <1>3, <1>5, StackTop
<1> QED
  BY <1>3, <1>4, <1>5, <1>6

\* A stack without its top call: the next one waits for it.
LEMMA TailStack ==
  ASSUME NEW P, NEW N, NEW fr \in Seq(Frame), fr # <<>>, StackInv(P, N, fr)
  PROVE  /\ StackInv(P, N, Tail(fr))
         /\ Tail(fr) # <<>> => IsAt(P, Head(Tail(fr)), Head(fr).name)
<1>1. PICK r \in Seq(Frame) : r = Tail(fr)
  BY StackTop
<1>2. /\ Len(r) = Len(fr) - 1 /\ Len(fr) \in Nat \ {0} /\ DOMAIN fr = 1 .. Len(fr) /\ Head(fr) = fr[1]
      /\ \A i \in 1 .. Len(fr) - 1 : r[i] = fr[i + 1]
  BY <1>1, StackTop
<1>3. DOMAIN r = 1 .. Len(r)
  BY LenProperties
<1>4. \A i \in DOMAIN r : UsedInv(P, N, r[i])
  <2> TAKE i \in DOMAIN r
  <2>1. r[i] = fr[i + 1] /\ i + 1 \in DOMAIN fr
    BY <1>2, <1>3
  <2> QED
    BY <2>1 DEF StackInv
<1>5. \A i \in 1 .. Len(r) : IsAt(P, r[i], fr[i].name)
  <2> TAKE i \in 1 .. Len(r)
  <2>1. r[i] = fr[i + 1] /\ i + 1 \in 2 .. Len(fr) /\ (i + 1) - 1 = i
    BY <1>2
  <2>2. IsAt(P, fr[i + 1], fr[(i + 1) - 1].name)
    BY <2>1 DEF StackInv
  <2> QED
    BY <2>1, <2>2
<1>6. \A i \in 2 .. Len(r) : IsAt(P, r[i], r[i - 1].name)
  <2> TAKE i \in 2 .. Len(r)
  <2>1. i \in 1 .. Len(r) /\ i - 1 \in 1 .. Len(fr) - 1 /\ (i - 1) + 1 = i
    BY <1>2
  <2>2. r[i - 1] = fr[i]
    BY <1>2, <2>1
  <2> QED
    BY <1>5, <2>1, <2>2
<1>7. r # <<>> => IsAt(P, Head(r), Head(fr).name)
  <2> SUFFICES ASSUME r # <<>> PROVE IsAt(P, Head(r), Head(fr).name)
    OBVIOUS
  <2>1. Head(r) = r[1] /\ 1 \in 1 .. Len(r)
    BY StackTop
  <2> QED
    BY <1>2, <1>5, <2>1
<1> QED
  BY <1>1, <1>4, <1>6, <1>7 DEF StackInv

\* A call that its caller waits for may be put on top.
LEMMA CallStack ==
  ASSUME NEW P, NEW N, NEW fr \in Seq(Frame), NEW f \in Frame, StackInv(P, N, fr),
         fr # <<>> => IsAt(P, Head(fr), f.name), UsedInv(P, N, f)
  PROVE  StackInv(P, N, <<f>> \o fr)
<1>1. PICK r \in Seq(Frame) : r = <<f>> \o fr
  BY PushedOn
<1>2. /\ Len(r) = Len(fr) + 1 /\ Len(fr) \in Nat /\ r[1] = f /\ DOMAIN r = 1 .. Len(r) /\ DOMAIN fr = 1 .. Len(fr)
      /\ \A i \in 1 .. Len(fr) : r[i + 1] = fr[i]
  BY <1>1, PushedOn, LenProperties
<1>3. \A i \in 2 .. Len(r) : i - 1 \in 1 .. Len(fr) /\ r[i] = fr[i - 1]
  <2> TAKE i \in 2 .. Len(r)
  <2>1. i - 1 \in 1 .. Len(fr) /\ (i - 1) + 1 = i
    BY <1>2
  <2> QED
    BY <1>2, <2>1
<1>4. \A i \in DOMAIN r : UsedInv(P, N, r[i])
  <2> TAKE i \in DOMAIN r
  <2>1. i = 1 \/ i \in 2 .. Len(r)
    BY <1>2
  <2> QED
    BY <1>2, <1>3, <2>1 DEF StackInv
<1>5. \A i \in 2 .. Len(r) : IsAt(P, r[i], r[i - 1].name)
  <2> TAKE i \in 2 .. Len(r)
  <2>1. CASE i = 2
    <3>1. 1 \in 1 .. Len(fr) /\ r[2] = fr[1] /\ r[2 - 1] = f
      BY <1>2, <1>3, <2>1
    <3>2. fr # <<>> /\ Head(fr) = fr[1]
      BY <3>1, EmptySeq, StackTop
    <3> QED
      BY <2>1, <3>1, <3>2
  <2>2. CASE i # 2
    <3>1. i - 1 \in 2 .. Len(fr) /\ i - 1 \in 2 .. Len(r)
      BY <1>2, <2>2
    <3>2. r[i] = fr[i - 1] /\ r[i - 1] = fr[(i - 1) - 1]
      BY <1>3, <3>1
    <3> QED
      BY <3>1, <3>2 DEF StackInv
  <2> QED
    BY <2>1, <2>2
<1> QED
  BY <1>1, <1>4, <1>5 DEF StackInv

\* The top call goes on to another step.
LEMMA ReplaceTop ==
  ASSUME NEW P, NEW N, NEW fr \in Seq(Frame), fr # <<>>, NEW f \in Frame,
         \A i \in 2 .. Len(fr) : UsedInv(P, N, fr[i]) /\ IsAt(P, fr[i], fr[i - 1].name),
         f.name = Head(fr).name, UsedInv(P, N, f)
  PROVE  LET r == [fr EXCEPT ![1] = f] IN
         /\ r \in Seq(Frame) /\ r # <<>> /\ Head(r) = f /\ Len(r) = Len(fr)
         /\ r[1] = f /\ \A i \in 2 .. Len(fr) : r[i] = fr[i]
         /\ StackInv(P, N, r)
<1>1. Len(fr) \in Nat \ {0} /\ 1 \in 1 .. Len(fr) /\ Head(fr) = fr[1]
  BY StackTop
<1>2. PICK r : r = [fr EXCEPT ![1] = f]
  OBVIOUS
<1>3. r \in Seq(Frame) /\ Len(r) = Len(fr) /\ \A i \in 1 .. Len(fr) : r[i] = IF i = 1 THEN f ELSE fr[i]
  BY <1>1, <1>2, ExceptSeq
<1>4. r[1] = f /\ \A i \in 2 .. Len(fr) : r[i] = fr[i]
  BY <1>1, <1>3
<1>5. r # <<>> /\ Head(r) = f /\ DOMAIN r = 1 .. Len(r)
  BY <1>1, <1>3, <1>4, EmptySeq, StackTop, LenProperties
<1>6. \A i \in DOMAIN r : UsedInv(P, N, r[i])
  <2> TAKE i \in DOMAIN r
  <2>1. i = 1 \/ i \in 2 .. Len(fr)
    BY <1>1, <1>3, <1>5
  <2> QED
    BY <1>4, <2>1
<1>7. \A i \in 2 .. Len(r) : IsAt(P, r[i], r[i - 1].name)
  <2> TAKE i \in 2 .. Len(r)
  <2>1. r[i] = fr[i] /\ IsAt(P, fr[i], fr[i - 1].name)
    BY <1>3, <1>4
  <2>2. r[i - 1].name = fr[i - 1].name
    <3>1. i - 1 \in 1 .. Len(fr)
      BY <1>1, <1>3
    <3>2. CASE i - 1 = 1
      BY <1>1, <1>4, <3>2
    <3>3. CASE i - 1 # 1
      BY <1>3, <3>1, <3>3
    <3> QED
      BY <3>2, <3>3
  <2> QED
    BY <2>1, <2>2
<1> QED
  BY <1>2, <1>3, <1>4, <1>5, <1>6, <1>7 DEF StackInv

\* The innermost call returns to the template that it is a parameter of.
LEMMA ReturnStack ==
  ASSUME NEW P, NEW N, NEW fr \in Seq(Frame), StackInv(P, N, fr), NEW id \in Nat, NEW s,
         fr # <<>> => IsAt(P, Head(fr), s) /\ P[Head(fr).name] \in Seq(Service), IsOf(N, id, s)
  PROVE  LET r == Returned(fr, id) IN
         /\ r \in Seq(Frame) /\ Len(r) = Len(fr)
         /\ StackInv(P, N, r)
         /\ \A i \in 1 .. Len(fr) : r[i].name = fr[i].name /\ r[i].step = fr[i].step
         /\ r # <<>> => fr # <<>> /\ Head(r).name = Head(fr).name /\ Head(r).step = "params"
<1>1. CASE fr = <<>>
  <2>1. Returned(fr, id) = <<>>
    BY <1>1 DEF Returned
  <2> QED
    BY <1>1, <2>1
<1>2. CASE fr # <<>>
  <2>1. Len(fr) \in Nat \ {0} /\ Head(fr) = fr[1] /\ Head(fr) \in Frame /\ DOMAIN fr = 1 .. Len(fr)
    BY <1>2, StackTop
  <2>2. PICK g \in Frame : g = Head(fr)
    BY <2>1
  <2>3. PICK used \in Seq(Nat) : used = Append(g.used, id)
    BY AppendProperties DEF Frame
  <2>4. PICK f : f = [g EXCEPT !.used = used]
    OBVIOUS
  <2>5. f \in Frame /\ f.name = g.name /\ f.step = g.step /\ f.used = used /\ f.made = g.made
    BY <2>4 DEF Frame
  <2>6. g.step = "params" /\ Len(g.used) < Len(P[g.name]) /\ P[g.name][Len(g.used) + 1] = s
    BY <1>2, <2>2 DEF IsAt
  <2>7. UsedInv(P, N, g)
    BY <2>1, <2>2 DEF StackInv
  <2>8. UsedInv(P, N, f)
    <3>1. g.used \in Seq(Nat) /\ Len(g.used) \in Nat /\ DOMAIN g.used = 1 .. Len(g.used)
      BY LenProperties DEF Frame
    <3>2. /\ Len(used) = Len(g.used) + 1 /\ used[Len(g.used) + 1] = id
          /\ \A n \in 1 .. Len(g.used) : used[n] = g.used[n]
      BY <2>3, <3>1, AppendProperties
    <3>3. DOMAIN used = 1 .. Len(used)
      BY LenProperties
    <3>4. \A n \in DOMAIN used : IsOf(N, used[n], P[g.name][n])
      <4> TAKE n \in DOMAIN used
      <4>1. n \in 1 .. Len(g.used) \/ n = Len(g.used) + 1
        BY <3>1, <3>2, <3>3
      <4> QED
        BY <2>6, <2>7, <3>1, <3>2, <4>1 DEF UsedInv
    <3>5. Len(used) <= Len(P[g.name])
      <4>1. Len(P[g.name]) \in Nat
        BY <1>2, <2>2, LenProperties
      <4> QED
        BY <2>6, <3>1, <3>2, <4>1
    <3> QED
      BY <2>5, <2>6, <2>7, <3>4, <3>5 DEF UsedInv
  <2>9. PICK r : r = <<f>> \o Tail(fr)
    OBVIOUS
  <2>10. Returned(fr, id) = r
    BY <1>2, <2>2, <2>3, <2>4, <2>9 DEF Returned
  <2>11. Tail(fr) \in Seq(Frame) /\ Len(Tail(fr)) = Len(fr) - 1 /\ \A i \in 1 .. Len(fr) - 1 : Tail(fr)[i] = fr[i + 1]
    BY <1>2, StackTop
  <2>12. StackInv(P, N, Tail(fr)) /\ (Tail(fr) # <<>> => IsAt(P, Head(Tail(fr)), g.name))
    BY <1>2, <2>2, TailStack
  <2>13. StackInv(P, N, r)
    BY <2>5, <2>8, <2>9, <2>11, <2>12, CallStack
  <2>14. /\ r \in Seq(Frame) /\ Len(r) = Len(fr) /\ r # <<>> /\ Head(r) = f /\ r[1] = f
         /\ \A i \in 1 .. Len(fr) - 1 : r[i + 1] = fr[i + 1]
    BY <2>1, <2>5, <2>9, <2>11, PushedOn
  <2>15. \A i \in 1 .. Len(fr) : r[i].name = fr[i].name /\ r[i].step = fr[i].step
    <3> TAKE i \in 1 .. Len(fr)
    <3>1. CASE i = 1
      BY <2>1, <2>2, <2>5, <2>14, <3>1
    <3>2. CASE i # 1
      <4>1. i - 1 \in 1 .. Len(fr) - 1 /\ (i - 1) + 1 = i
        BY <2>1, <3>2
      <4> QED
        BY <2>14, <4>1
    <3> QED
      BY <3>1, <3>2
  <2> QED
    BY <1>2, <2>2, <2>5, <2>6, <2>10, <2>13, <2>14, <2>15
<1> QED
  BY <1>1, <1>2

-----------------------------------------------------------------------------
\* What the programs and the calls are made of.
LEMMA TemplateTypes ==
  ASSUME ShapeInv
  PROVE  /\ program.params \in [Service -> Seq(Service)]
         /\ program.gens \subseteq Service
  BY ServicesAssumption DEF ShapeInv

\* What is known of the top call of a thread.
LEMMA TopCall ==
  ASSUME ShapeInv, CallInv, NEW t \in Thread, frames[t] # <<>>
  PROVE  /\ frames[t] \in Seq(Frame) /\ frames[t][1] = Top(t) /\ Top(t) \in Frame
         /\ Top(t).name \in Service /\ Top(t).used \in Seq(Nat)
         /\ Len(frames[t]) \in Nat \ {0}
         /\ Params(t) = program.params[Top(t).name] /\ Params(t) \in Seq(Service)
         /\ UsedInv(program.params, instances, Top(t))
<1>1. frames[t] \in Seq(Frame)
  BY DEF ShapeInv
<1>2. frames[t][1] = Top(t) /\ Top(t) \in Frame /\ Len(frames[t]) \in Nat \ {0} /\ 1 \in DOMAIN frames[t]
  BY <1>1, StackTop DEF Top
<1>3. UsedInv(program.params, instances, frames[t][1])
  BY <1>2 DEF CallInv, StackInv
<1> QED
  BY <1>1, <1>2, <1>3, TemplateTypes DEF Params, Frame

\* Only the calls of t change, and they stay as they have to be.
LEMMA CallsOf ==
  ASSUME CallInv, ShapeInv, NEW t \in Thread, NEW r \in Seq(Frame),
         frames' = [frames EXCEPT ![t] = r],
         StackInv(program.params, instances, r), UNCHANGED <<program, instances>>,
         \A u \in Thread : u # t => error'[u] = error[u],
         error'[t] # None /\ r # <<>> => Head(r).step = "params"
  PROVE  frames' \in [Thread -> Seq(Frame)] /\ CallInv'
<1>1. frames'[t] = r /\ \A u \in Thread : u # t => frames'[u] = frames[u]
  BY DEF ShapeInv
<1>2. frames' \in [Thread -> Seq(Frame)]
  BY DEF ShapeInv
<1> QED
  BY <1>1, <1>2 DEF CallInv, Top

\* resolve_service, of the program or of a template.
LEMMA LookUpInv ==
  ASSUME IInv, NEW t \in Thread, NEW s \in Service, LookUp(t, s), error[t] = None,
         frames[t] # <<>> => IsAt(program.params, Top(t), s),
         UNCHANGED <<program, instances, error>>
  PROVE  frames' \in [Thread -> Seq(Frame)] /\ CallInv' /\ overlap' \in BOOLEAN
<1>1. ShapeInv /\ CallInv /\ NameInv
  BY DEF IInv
<1>2. frames[t] \in Seq(Frame) /\ StackInv(program.params, instances, frames[t])
  BY <1>1 DEF ShapeInv, CallInv
<1>3. frames[t] # <<>> => program.params[Head(frames[t]).name] \in Seq(Service)
  BY <1>1, TopCall DEF Top
<1>4. CASE service[s] # 0
  <2>1. PICK id \in Nat : id = service[s] /\ IsOf(instances, id, s)
    BY <1>1, <1>4 DEF ShapeInv, NameInv
  <2>2. PICK r : r = Returned(frames[t], id)
    OBVIOUS
  <2>3. /\ r \in Seq(Frame) /\ StackInv(program.params, instances, r)
        /\ r # <<>> => Head(r).step = "params"
    BY <1>2, <1>3, <2>1, <2>2, ReturnStack DEF Top
  <2>4. frames' = [frames EXCEPT ![t] = r] /\ overlap' = overlap
    BY <1>4, <2>1, <2>2 DEF LookUp
  <2> QED
    BY <1>1, <2>3, <2>4, CallsOf DEF ShapeInv
<1>5. CASE service[s] = 0
  <2>1. PICK f \in Frame : f = [name |-> s, step |-> "check", used |-> <<>>, made |-> 0]
    <3>1. <<>> \in Seq(Nat)
      BY EmptySeq
    <3>2. [name |-> s, step |-> "check", used |-> <<>>, made |-> 0] \in Frame
      BY <3>1 DEF Frame, Steps
    <3> QED
      BY <3>2
  <2>2. UsedInv(program.params, instances, f)
    <3>1. f.name = s /\ f.step = "check" /\ f.used = <<>> /\ f.made = 0 /\ Len(<<>>) = 0 /\ DOMAIN <<>> = {}
      BY <2>1, EmptySeq
    <3>2. Len(program.params[s]) \in Nat
      BY <1>1, TemplateTypes, LenProperties
    <3> QED
      BY <3>1, <3>2 DEF UsedInv
  <2>3. PICK r : r = <<f>> \o frames[t]
    OBVIOUS
  <2>4. r \in Seq(Frame) /\ StackInv(program.params, instances, r)
    BY <1>2, <2>1, <2>2, <2>3, PushedOn, CallStack DEF Top
  <2>5. frames' = [frames EXCEPT ![t] = r] /\ overlap' \in BOOLEAN
    BY <1>1, <1>5, <2>1, <2>3 DEF LookUp, ShapeInv
  <2> QED
    BY <1>1, <2>4, <2>5, CallsOf
<1> QED
  BY <1>4, <1>5

\* An exception goes on to the call below.
LEMMA LeaveInv ==
  ASSUME IInv, NEW t \in Thread, frames[t] # <<>>, NEW x \in {"loop", "broken", "empty"}, Leave(t, x),
         UNCHANGED <<program, instances>>
  PROVE  /\ frames' \in [Thread -> Seq(Frame)] /\ CallInv'
         /\ error' \in [Thread -> {None, "loop", "broken", "empty"}]
         /\ raised' \subseteq {"loop", "broken", "empty"}
<1>1. ShapeInv /\ CallInv
  BY DEF IInv
<1>2. PICK r : r = Tail(frames[t])
  OBVIOUS
<1>3. r \in Seq(Frame) /\ StackInv(program.params, instances, r) /\ (r # <<>> => Head(r).step = "params")
  BY <1>1, <1>2, TopCall, StackTop, TailStack DEF CallInv, IsAt
<1>4. frames' = [frames EXCEPT ![t] = r]
  BY <1>2 DEF Leave
<1>5. error' \in [Thread -> {None, "loop", "broken", "empty"}] /\ \A u \in Thread : u # t => error'[u] = error[u]
  BY <1>1 DEF Leave, ShapeInv
<1>6. raised' \subseteq {"loop", "broken", "empty"}
  BY <1>1 DEF Leave, ShapeInv
<1> QED
  BY <1>1, <1>3, <1>4, <1>5, <1>6, CallsOf

\* The innermost call of a thread goes on to a step.
LEMMA GotoInv ==
  ASSUME IInv, NEW t \in Thread, frames[t] # <<>>, error[t] = None, NEW step \in Steps, Goto(t, step),
         step \in {"pop", "store"} => Top(t).step = "pop",
         UNCHANGED <<program, instances, error>>
  PROVE  frames' \in [Thread -> Seq(Frame)] /\ CallInv'
<1>1. ShapeInv /\ CallInv
  BY DEF IInv
<1>2. PICK fr \in Seq(Frame) : fr = frames[t] /\ fr # <<>> /\ fr[1] = Top(t) /\ Top(t) \in Frame /\ Head(fr) = Top(t)
  BY <1>1, TopCall DEF Top
<1>3. PICK f : f = [Top(t) EXCEPT !.step = step]
  OBVIOUS
<1>4. f \in Frame /\ f.name = Top(t).name /\ f.used = Top(t).used /\ f.made = Top(t).made /\ f.step = step
  BY <1>2, <1>3 DEF Frame
<1>5. UsedInv(program.params, instances, f)
  <2>1. UsedInv(program.params, instances, Top(t))
    BY <1>1, TopCall
  <2> QED
    BY <1>4, <2>1 DEF UsedInv
<1>6. PICK r : r = [fr EXCEPT ![1] = f]
  OBVIOUS
<1>7. frames' = [frames EXCEPT ![t] = r]
  BY <1>1, <1>2, <1>3, <1>6 DEF Goto, ShapeInv
<1>8. \A i \in 2 .. Len(fr) : UsedInv(program.params, instances, fr[i]) /\ IsAt(program.params, fr[i], fr[i - 1].name)
  BY <1>1, <1>2, StackTop DEF CallInv, StackInv
<1>9. r \in Seq(Frame) /\ StackInv(program.params, instances, r)
  BY <1>2, <1>4, <1>5, <1>6, <1>8, ReplaceTop
<1> QED
  BY <1>1, <1>7, <1>9, CallsOf

\* The steps that leave instances and finalizers as they are.
LEMMA CallOnly ==
  ASSUME IInv, frames' \in [Thread -> Seq(Frame)], CallInv', overlap' \in BOOLEAN,
         calls' \in [Thread -> Nat],
         error' \in [Thread -> {None, "loop", "broken", "empty"}],
         raised' \subseteq {"loop", "broken", "empty"},
         stack' \in Seq(Service), IsInjective(stack'),
         UNCHANGED <<program, instances, service, finalizers, closeVars>>
  PROVE  IInv'
BY DEF IInv, ShapeInv, NameInv, OrderInv, CloseInv, closeVars

\* resolve_service begins, or finds the instance.
LEMMA ResolveInv ==
  ASSUME IInv, NEW t \in Thread, NEW s \in Service, Resolve(t, s)
  PROVE  IInv'
<1>1. /\ frames[t] = <<>> /\ error[t] = None /\ LookUp(t, s)
      /\ calls' = [calls EXCEPT ![t] = @ + 1]
      /\ UNCHANGED <<program, error, systemVars, closeVars, raised>>
  BY DEF Resolve
<1>2. frames' \in [Thread -> Seq(Frame)] /\ CallInv' /\ overlap' \in BOOLEAN
  BY <1>1, LookUpInv DEF systemVars
<1>3. calls' \in [Thread -> Nat]
  BY <1>1 DEF IInv, ShapeInv
<1> QED
  BY <1>1, <1>2, <1>3, CallOnly DEF systemVars, IInv, ShapeInv

\* A parameter of the service is resolved next.
LEMMA NextParamInv ==
  ASSUME IInv, NEW t \in Thread, NextParam(t)
  PROVE  IInv'
<1>1. /\ frames[t] # <<>> /\ error[t] = None /\ Top(t).step = "params"
      /\ Len(Top(t).used) < Len(Params(t))
      /\ LookUp(t, Params(t)[Len(Top(t).used) + 1])
      /\ UNCHANGED <<program, calls, error, systemVars, closeVars, raised>>
  BY DEF NextParam, At
<1>2. Top(t).used \in Seq(Nat) /\ Params(t) \in Seq(Service) /\ Params(t) = program.params[Top(t).name]
  BY <1>1, TopCall DEF IInv
<1>3. PICK s : s = Params(t)[Len(Top(t).used) + 1]
  OBVIOUS
<1>4. s \in Service
  <2>1. Len(Top(t).used) + 1 \in 1 .. Len(Params(t))
    BY <1>1, <1>2, LenProperties
  <2> QED
    BY <1>2, <1>3, <2>1, ElementOfSeq
<1>5. IsAt(program.params, Top(t), s)
  BY <1>1, <1>2, <1>3 DEF IsAt
<1>6. frames' \in [Thread -> Seq(Frame)] /\ CallInv' /\ overlap' \in BOOLEAN
  BY <1>1, <1>3, <1>4, <1>5, LookUpInv DEF systemVars
<1> QED
  BY <1>1, <1>6, CallOnly DEF systemVars, IInv, ShapeInv

\* A name that is in the stack is reported, any other joins it.
LEMMA CheckLoopInv ==
  ASSUME IInv, NEW t \in Thread, CheckLoop(t)
  PROVE  IInv'
<1>1. /\ frames[t] # <<>> /\ error[t] = None
      /\ UNCHANGED <<program, calls, systemVars, closeVars, overlap>>
      /\ \/ Leave(t, "loop")
         \/ Goto(t, "push") /\ UNCHANGED <<error, raised>>
  BY DEF CheckLoop, At
<1>2. CASE Leave(t, "loop")
  BY <1>1, <1>2, LeaveInv, CallOnly DEF systemVars, IInv, ShapeInv
<1>3. CASE Goto(t, "push") /\ UNCHANGED <<error, raised>>
  BY <1>1, <1>3, GotoInv, CallOnly DEF systemVars, IInv, ShapeInv, Steps
<1> QED
  BY <1>1, <1>2, <1>3

\* The names in the stack stay different.
LEMMA PushInv ==
  ASSUME IInv, NEW t \in Thread, Push(t)
  PROVE  IInv'
<1>1. /\ frames[t] # <<>> /\ error[t] = None /\ Goto(t, "params")
      /\ UNCHANGED <<program, calls, error, instances, service, finalizers, closeVars, raised, overlap>>
      /\ stack' = IF Top(t).name \in Range(stack) THEN stack ELSE Append(stack, Top(t).name)
  BY DEF Push, At
<1>2. PICK x \in Service : x = Top(t).name
  BY <1>1, TopCall DEF IInv
<1>3. stack \in Seq(Service) /\ IsInjective(stack)
  BY DEF IInv, ShapeInv
<1>4. stack' \in Seq(Service) /\ IsInjective(stack')
  <2>1. CASE x \in Range(stack)
    BY <1>1, <1>2, <1>3, <2>1
  <2>2. CASE x \notin Range(stack)
    <3>0. PICK stk \in Seq(Service) : stk = stack
      BY <1>3
    <3>1. PICK r \in Seq(Service) : r = Append(stack, x) /\ Len(r) = Len(stack) + 1
                 /\ r[Len(stack) + 1] = x /\ \A i \in 1 .. Len(stack) : r[i] = stack[i]
      <4>1. /\ Append(stk, x) \in Seq(Service) /\ Len(Append(stk, x)) = Len(stk) + 1
            /\ \A i \in 1 .. Len(stk) : Append(stk, x)[i] = stk[i]
            /\ Append(stk, x)[Len(stk) + 1] = x
        BY AppendProperties
      <4> QED
        BY <3>0, <4>1
    <3>2. DOMAIN r = 1 .. Len(r) /\ DOMAIN stack = 1 .. Len(stack) /\ Len(stack) \in Nat
      BY <1>3, LenProperties
    <3>3. \A i \in DOMAIN stack : stack[i] # x
      BY <2>2 DEF Range
    <3>4. IsInjective(r)
      BY <1>3, <3>1, <3>2, <3>3 DEF IsInjective
    <3> QED
      BY <1>1, <1>2, <2>2, <3>1, <3>4
  <2> QED
    BY <2>1, <2>2
<1> QED
  BY <1>1, <1>4, GotoInv, CallOnly DEF IInv, ShapeInv, Steps

\* The function of a service raises.
LEMMA MakeFailsInv ==
  ASSUME IInv, NEW t \in Thread, MakeFails(t)
  PROVE  IInv'
<1>1. /\ frames[t] # <<>> /\ Top(t).step = "params" /\ error' = [error EXCEPT ![t] = "broken"]
      /\ UNCHANGED <<program, calls, frames, systemVars, closeVars, raised, overlap>>
  BY DEF MakeFails, At
<1>2. CallInv'
  BY <1>1 DEF IInv, ShapeInv, CallInv, Top, systemVars
<1> QED
  BY <1>1, <1>2, CallOnly DEF IInv, ShapeInv, systemVars

\* A stack without its last name.
LEMMA PoppedStack ==
  ASSUME NEW S, NEW s \in Seq(S), s # <<>>
  PROVE  /\ Front(s) \in Seq(S) /\ Len(Front(s)) = Len(s) - 1 /\ Len(s) \in Nat \ {0}
         /\ \A i \in 1 .. Len(s) - 1 : Front(s)[i] = s[i]
         /\ IsInjective(s) => IsInjective(Front(s))
<1>1. Len(s) \in Nat \ {0} /\ \A i \in 1 .. Len(s) - 1 : s[i] \in S
  BY EmptySeq, ElementOfSeq
<1>2. /\ Front(s) \in Seq(S)
      /\ Len(Front(s)) = IF 1 <= Len(s) - 1 THEN (Len(s) - 1) - 1 + 1 ELSE 0
      /\ \A i \in 1 .. (Len(s) - 1) - 1 + 1 : Front(s)[i] = s[1 + i - 1]
  BY <1>1, SubSeqProperties DEF Front
<1>3. Len(Front(s)) = Len(s) - 1 /\ \A i \in 1 .. Len(s) - 1 : Front(s)[i] = s[i]
  <2>1. PICK n : n = Len(s) - 1 /\ n \in Nat
    BY <1>1
  <2>2. Len(Front(s)) = n
    BY <1>2, <2>1
  <2>3. ASSUME NEW i \in 1 .. n
        PROVE  Front(s)[i] = s[i]
    <3>1. i \in 1 .. n - 1 + 1 /\ 1 + i - 1 = i
      BY <2>1
    <3> QED
      BY <1>2, <2>1, <3>1
  <2> QED
    BY <2>1, <2>2, <2>3
<1>4. DOMAIN Front(s) = 1 .. Len(s) - 1 /\ DOMAIN s = 1 .. Len(s)
  BY <1>2, <1>3, LenProperties
<1>5. IsInjective(s) => IsInjective(Front(s))
  BY <1>1, <1>3, <1>4 DEF IsInjective
<1> QED
  BY <1>1, <1>2, <1>3, <1>5

\* The name that was put on the stack last leaves it.
LEMMA PopInv ==
  ASSUME IInv, NEW t \in Thread, Pop(t)
  PROVE  IInv'
<1>1. /\ frames[t] # <<>> /\ (error[t] # None \/ Top(t).step = "pop")
      /\ UNCHANGED <<program, calls, instances, service, finalizers, closeVars, overlap>>
      /\ stack' = IF stack = <<>> THEN <<>> ELSE Front(stack)
      /\ \/ Leave(t, "empty")
         \/ error[t] # None /\ Leave(t, error[t])
         \/ error[t] = None /\ Goto(t, "store") /\ UNCHANGED <<error, raised>>
  BY DEF Pop
<1>2. stack' \in Seq(Service) /\ IsInjective(stack')
  BY <1>1, PoppedStack DEF IInv, ShapeInv
<1>3. ASSUME NEW x \in {"loop", "broken", "empty"}, Leave(t, x)
      PROVE  IInv'
  BY <1>1, <1>2, <1>3, LeaveInv, CallOnly DEF IInv, ShapeInv
<1>4. error[t] # None => error[t] \in {"loop", "broken", "empty"}
  BY DEF IInv, ShapeInv
<1>5. CASE error[t] = None /\ Goto(t, "store") /\ UNCHANGED <<error, raised>>
  BY <1>1, <1>2, <1>5, GotoInv, CallOnly DEF IInv, ShapeInv, Steps
<1> QED
  BY <1>1, <1>3, <1>4, <1>5

\* The instance made is put where it is looked up, and returned.
LEMMA StoreInv ==
  ASSUME IInv, NEW t \in Thread, Store(t)
  PROVE  IInv'
<1>1. /\ frames[t] # <<>> /\ error[t] = None /\ Top(t).step = "store"
      /\ service' = [service EXCEPT ![Top(t).name] = Top(t).made]
      /\ frames' = [frames EXCEPT ![t] = Returned(Tail(@), Top(t).made)]
      /\ UNCHANGED <<program, calls, error, instances, stack, finalizers, closeVars, raised, overlap>>
  BY DEF Store, At
<1>2. ShapeInv /\ CallInv /\ NameInv
  BY DEF IInv
<1>3. PICK fr \in Seq(Frame) : fr = frames[t] /\ fr # <<>> /\ Head(fr) = Top(t)
  BY <1>1, <1>2, TopCall DEF Top
<1>4. PICK id \in Nat : id = Top(t).made /\ IsOf(instances, id, Top(t).name)
  <2>1. Top(t) \in Frame /\ UsedInv(program.params, instances, Top(t))
    BY <1>1, <1>2, TopCall
  <2> QED
    BY <1>1, <2>1 DEF UsedInv, Frame
<1>5. PICK rest \in Seq(Frame) : rest = Tail(fr)
  BY <1>3, StackTop
<1>6. StackInv(program.params, instances, rest) /\ (rest # <<>> => IsAt(program.params, Head(rest), Top(t).name))
  BY <1>2, <1>3, <1>5, TailStack DEF CallInv
<1>7. rest # <<>> => program.params[Head(rest).name] \in Seq(Service)
  BY <1>2, StackTop, TemplateTypes DEF Frame
<1>8. PICK r : r = Returned(rest, id)
  OBVIOUS
<1>9. r \in Seq(Frame) /\ StackInv(program.params, instances, r) /\ (r # <<>> => Head(r).step = "params")
  BY <1>4, <1>6, <1>7, <1>8, ReturnStack
<1>10. frames' = [frames EXCEPT ![t] = r]
  BY <1>1, <1>3, <1>4, <1>5, <1>8
<1>11. frames' \in [Thread -> Seq(Frame)] /\ CallInv'
  BY <1>1, <1>2, <1>9, <1>10, CallsOf
<1>12. service' \in [Service -> Nat] /\ \A s \in Service : service'[s] # 0 => IsOf(instances, service'[s], s)
  BY <1>1, <1>2, <1>4 DEF ShapeInv, NameInv
<1> QED
  BY <1>1, <1>11, <1>12 DEF IInv, ShapeInv, NameInv, OrderInv, CloseInv, closeVars

\* A service is made: what it uses is there, and the finalizers of what it uses come
\* before its own, which takes the place of one made before.
LEMMA MakeInv ==
  ASSUME IInv, NEW t \in Thread, Make(t)
  PROVE  IInv'
<1>1. ShapeInv /\ CallInv /\ NameInv /\ OrderInv /\ CloseInv
  BY DEF IInv
<1> DEFINE len == Len(instances)
<1>2. PICK f \in Frame : f = Top(t) /\ f = Head(frames[t]) /\ f = frames[t][1]
  BY <1>1, TopCall DEF Make, Made, At, Top
<1>3. PICK s \in Service : s = f.name
  BY DEF Frame
<1>4. PICK id \in Nat : id = Len(instances) + 1 /\ id # 0
  BY <1>1, LenProperties DEF ShapeInv
<1>5. PICK new : new = [name |-> s, uses |-> Range(f.used), late |-> phase # "run"]
  OBVIOUS
<1>6. PICK g : g = [f EXCEPT !.step = "pop", !.made = id]
  OBVIOUS
<1>7. /\ frames[t] # <<>> /\ error[t] = None /\ f.step = "params" /\ Len(f.used) = Len(Params(t))
      /\ instances' = Append(instances, new)
      /\ finalizers' = IF s \in program.gens THEN WithFinalizer(s, id) ELSE finalizers
      /\ frames' = [frames EXCEPT ![t] = [@ EXCEPT ![1] = g]]
      /\ UNCHANGED <<program, calls, error, service, stack, closeVars, raised, overlap>>
  BY <1>1, <1>2, <1>3, <1>4, <1>5, <1>6 DEF Make, Made, At, ShapeInv
<1>8. /\ g \in Frame /\ g.name = s /\ g.step = "pop" /\ g.made = id /\ g.used = f.used
  BY <1>3, <1>6 DEF Frame, Steps
<1>9. new.name = s /\ new.uses = Range(f.used) /\ new.late = (phase # "run")
  BY <1>5
<1>10. /\ f.used \in Seq(Nat) /\ DOMAIN f.used = 1 .. Len(f.used) /\ Len(f.used) \in Nat
       /\ Params(t) = program.params[s] /\ Params(t) \in Seq(Service)
       /\ UsedInv(program.params, instances, f)
  BY <1>1, <1>2, <1>3, <1>7, TopCall, LenProperties
<1>11. new \in Instance
  <2>1. Range(f.used) \subseteq Nat
    BY <1>10, RangeOfSeq
  <2> QED
    BY <1>5, <2>1 DEF Instance
<1>12. /\ instances' \in Seq(Instance) /\ Len(instances') = id /\ instances'[id] = new
       /\ DOMAIN instances = 1 .. len /\ DOMAIN instances' = 1 .. id /\ len \in Nat
       /\ \A i \in 1 .. len : instances'[i] = instances[i]
  BY <1>1, <1>4, <1>7, <1>11, AppendProperties, LenProperties DEF ShapeInv
<1>13. /\ DOMAIN instances \subseteq DOMAIN instances' /\ id \in DOMAIN instances' /\ id \notin DOMAIN instances
       /\ \A i \in DOMAIN instances : instances'[i] = instances[i]
       /\ \A i \in DOMAIN instances' : i \in DOMAIN instances \/ i = id
  BY <1>4, <1>12
<1>14. \A i, x : IsOf(instances, i, x) => IsOf(instances', i, x)
  BY <1>13 DEF IsOf
<1>15. IsOf(instances', id, s)
  BY <1>9, <1>12, <1>13 DEF IsOf
<1>16. \A i \in new.uses : \E x \in Range(program.params[s]) : IsOf(instances, i, x)
  <2> TAKE i \in new.uses
  <2>1. PICK n \in DOMAIN f.used : i = f.used[n]
    BY <1>9 DEF Range
  <2>2. IsOf(instances, i, program.params[s][n])
    BY <1>3, <1>10, <2>1 DEF UsedInv
  <2>3. n \in DOMAIN program.params[s]
    BY <1>7, <1>10, LenProperties
  <2> QED
    BY <2>2, <2>3 DEF Range
<1>17. frames' \in [Thread -> Seq(Frame)] /\ CallInv'
  <2>1. ASSUME NEW fr, StackInv(program.params, instances, fr)
        PROVE  StackInv(program.params, instances', fr)
    BY <1>14, <2>1 DEF StackInv, UsedInv
  <2>2. PICK fr \in Seq(Frame) : fr = frames[t] /\ fr # <<>> /\ Head(fr) = f
    BY <1>1, <1>2, <1>7, TopCall
  <2>3. StackInv(program.params, instances', fr)
    BY <1>1, <2>1, <2>2 DEF CallInv
  <2>4. UsedInv(program.params, instances', g)
    BY <1>3, <1>4, <1>8, <1>10, <1>14, <1>15 DEF UsedInv
  <2>5. \A i \in 2 .. Len(fr) : UsedInv(program.params, instances', fr[i]) /\ IsAt(program.params, fr[i], fr[i - 1].name)
    BY <2>2, <2>3, StackTop DEF StackInv
  <2>6. PICK r : r = [fr EXCEPT ![1] = g]
    OBVIOUS
  <2>7. r \in Seq(Frame) /\ StackInv(program.params, instances', r)
    BY <1>3, <1>8, <2>2, <2>4, <2>5, <2>6, ReplaceTop
  <2>8. frames'[t] = r /\ (\A u \in Thread : u # t => frames'[u] = frames[u]) /\ frames' \in [Thread -> Seq(Frame)]
    BY <1>1, <1>7, <2>2, <2>6, <2>7 DEF ShapeInv
  <2> QED
    BY <1>1, <1>7, <2>1, <2>7, <2>8 DEF CallInv, Top
<1>18. DOMAIN finalizers = 1 .. Len(finalizers) /\ Len(finalizers) \in Nat
  BY <1>1, LenProperties DEF ShapeInv
<1> DEFINE entry == [name |-> s, id |-> id]
           has == \E k \in DOMAIN finalizers : finalizers[k].name = s
\* The entries of finalizers': those that were there, in their places, and the new one.
<1>19. /\ finalizers' \in Seq([name : Service, id : Nat])
       /\ DOMAIN finalizers \subseteq DOMAIN finalizers' /\ Len(finalizers) <= Len(finalizers')
       /\ \A k \in DOMAIN finalizers :
            /\ finalizers'[k].name = finalizers[k].name
            /\ finalizers'[k] = finalizers[k] \/ finalizers'[k] = entry
       /\ \A k \in DOMAIN finalizers' :
            k \in DOMAIN finalizers \/ (finalizers'[k] = entry /\ k = Len(finalizers) + 1 /\ ~has /\ s \in program.gens)
       /\ s \in program.gens => \E k \in DOMAIN finalizers' : finalizers'[k].name = s
  <2>1. CASE s \notin program.gens
    <3>1. finalizers' = finalizers
      BY <1>7, <2>1
    <3> HIDE DEF entry, has
    <3> QED
      BY <1>1, <1>18, <2>1, <3>1 DEF ShapeInv
  <2>2. entry \in [name : Service, id : Nat] /\ entry.name = s
    OBVIOUS
  <2>3. CASE s \in program.gens /\ has
    <3>1. finalizers' = [k \in DOMAIN finalizers |-> IF finalizers[k].name = s THEN entry ELSE finalizers[k]]
      BY <1>7, <2>3 DEF WithFinalizer
    <3>2. \A k \in DOMAIN finalizers : finalizers[k] \in [name : Service, id : Nat]
      BY <1>1, <1>18, ElementOfSeq DEF ShapeInv
    <3>3. finalizers' \in [1 .. Len(finalizers) -> [name : Service, id : Nat]]
      BY <1>18, <2>2, <3>1, <3>2
    <3>4. finalizers' \in Seq([name : Service, id : Nat])
      <4>1. OnFirst(finalizers', Len(finalizers), [name : Service, id : Nat])
        BY <1>18, <3>3 DEF OnFirst
      <4> QED
        BY <4>1, FirstIsSeq
    <3>5. DOMAIN finalizers' = DOMAIN finalizers /\ Len(finalizers') = Len(finalizers)
      BY <1>18, <3>3, <3>4, LenProperties
    <3>6. PICK m \in DOMAIN finalizers : finalizers[m].name = s
      BY <2>3
    <3> HIDE DEF entry, has
    <3>7. \A k \in DOMAIN finalizers :
            /\ finalizers'[k].name = finalizers[k].name
            /\ finalizers'[k] = finalizers[k] \/ finalizers'[k] = entry
      BY <2>2, <3>1
    <3> QED
      BY <1>18, <3>4, <3>5, <3>6, <3>7
  <2>4. CASE s \in program.gens /\ ~has
    <3>1. finalizers' = Append(finalizers, entry)
      BY <1>7, <2>4 DEF WithFinalizer
    <3> HIDE DEF entry
    <3>2. /\ finalizers' \in Seq([name : Service, id : Nat]) /\ Len(finalizers') = Len(finalizers) + 1
          /\ finalizers'[Len(finalizers) + 1] = entry
          /\ \A k \in 1 .. Len(finalizers) : finalizers'[k] = finalizers[k]
      BY <1>1, <2>2, <3>1, AppendProperties DEF ShapeInv
    <3>3. DOMAIN finalizers' = 1 .. Len(finalizers) + 1
      BY <3>2, LenProperties
    <3> HIDE DEF has
    <3>4. \A k \in DOMAIN finalizers' : k \in DOMAIN finalizers \/ k = Len(finalizers) + 1
      BY <1>18, <3>3
    <3>5. DOMAIN finalizers \subseteq DOMAIN finalizers' /\ Len(finalizers) + 1 \in DOMAIN finalizers'
          /\ Len(finalizers) <= Len(finalizers')
      BY <1>18, <3>2, <3>3
    <3>6. \A k \in DOMAIN finalizers : finalizers'[k] = finalizers[k]
      BY <1>18, <3>2
    <3> QED
      BY <2>2, <2>4, <3>2, <3>4, <3>5, <3>6
  <2> QED
    BY <2>1, <2>3, <2>4
<1>20. entry.name = s /\ entry.id = id
  OBVIOUS
<1> HIDE DEF entry
<1>21. ShapeInv'
  <2>1. finalized \subseteq DOMAIN instances'
    BY <1>1, <1>13 DEF ShapeInv
  <2> QED
    BY <1>1, <1>7, <1>12, <1>17, <1>19, <2>1 DEF ShapeInv, closeVars
<1>22. NameInv'
  <2>1. \A x \in Service : service'[x] # 0 => IsOf(instances', service'[x], x)
    BY <1>1, <1>7, <1>14 DEF NameInv
  <2>2. \A k \in DOMAIN finalizers' : IsOf(instances', finalizers'[k].id, finalizers'[k].name)
    BY <1>1, <1>14, <1>15, <1>19, <1>20 DEF NameInv
  <2>3. \A j \in DOMAIN instances' : \A i \in instances'[j].uses :
            \E x \in Range(program.params[instances'[j].name]) : IsOf(instances', i, x)
    <3> TAKE j \in DOMAIN instances'
    <3>1. CASE j \in DOMAIN instances
      BY <1>1, <1>13, <1>14, <3>1 DEF NameInv
    <3>2. CASE j = id
      BY <1>9, <1>12, <1>14, <1>16, <3>2
    <3>3. j \in DOMAIN instances \/ j = id
      BY <1>13
    <3> QED
      BY <3>1, <3>2, <3>3
  <2> QED
    BY <1>7, <2>1, <2>2, <2>3 DEF NameInv
<1>23. OrderInv'
  <2>1. \A k, l \in DOMAIN finalizers' : finalizers'[k].name = finalizers'[l].name => k = l
    BY <1>1, <1>19, <1>20 DEF OrderInv
  <2>2. \A j \in DOMAIN instances' : instances'[j].name \in program.gens =>
            \E k \in DOMAIN finalizers' : finalizers'[k].name = instances'[j].name
    <3> TAKE j \in DOMAIN instances'
    <3>1. CASE j \in DOMAIN instances
      BY <1>1, <1>13, <1>19, <3>1 DEF OrderInv
    <3>2. CASE j = id
      BY <1>9, <1>12, <1>19, <3>2
    <3>3. j \in DOMAIN instances \/ j = id
      BY <1>13
    <3> QED
      BY <3>1, <3>2, <3>3
  <2>3. ASSUME NEW k \in DOMAIN finalizers',
               NEW d \in Range(program.params[finalizers'[k].name]) \cap program.gens
        PROVE  \E l \in DOMAIN finalizers' : l < k /\ finalizers'[l].name = d
    <3>1. CASE k \in DOMAIN finalizers
      <4>1. PICK l \in DOMAIN finalizers : l < k /\ finalizers[l].name = d
        BY <1>1, <1>19, <2>3, <3>1 DEF OrderInv
      <4> QED
        BY <1>19, <4>1
    <3>2. CASE k \notin DOMAIN finalizers
      <4>1. finalizers'[k].name = s /\ k = Len(finalizers) + 1
        BY <1>19, <1>20, <3>2
      <4>2. PICK n \in DOMAIN program.params[s] : program.params[s][n] = d
        BY <2>3, <4>1 DEF Range
      <4>3. n \in DOMAIN f.used
        BY <1>7, <1>10, <4>2, LenProperties
      <4>4. IsOf(instances, f.used[n], d)
        BY <1>3, <1>10, <4>2, <4>3 DEF UsedInv
      <4>5. PICK l \in DOMAIN finalizers : finalizers[l].name = d
        BY <1>1, <2>3, <4>4 DEF OrderInv, IsOf
      <4>6. l < k
        BY <1>18, <4>1, <4>5
      <4> QED
        BY <1>19, <4>5, <4>6
    <3> QED
      BY <3>1, <3>2
  <2>4. \A k \in DOMAIN finalizers' : finalizers'[k].name \in program.gens
    BY <1>1, <1>19, <1>20 DEF OrderInv
  <2> QED
    BY <1>7, <2>1, <2>2, <2>3, <2>4 DEF OrderInv
<1>24. CloseInv'
  <2>1. UNCHANGED <<phase, left, finalized>>
    BY <1>7 DEF closeVars
  <2>2. left.at <= left.size /\ left.size <= Len(finalizers')
    <3>1. left.size \in Nat /\ Len(finalizers') \in Nat
      BY <1>1, <1>21, LenProperties DEF ShapeInv
    <3> QED
      BY <1>1, <1>18, <1>19, <3>1 DEF CloseInv
  <2>3. phase = "run" => finalized = {} /\ \A j \in DOMAIN instances' : ~instances'[j].late
    <3> SUFFICES ASSUME phase = "run", NEW j \in DOMAIN instances'
                 PROVE  finalized = {} /\ ~instances'[j].late
      BY <1>1 DEF CloseInv
    <3>1. CASE j \in DOMAIN instances
      BY <1>1, <1>13, <3>1 DEF CloseInv
    <3>2. CASE j = id
      BY <1>1, <1>9, <1>12, <3>2 DEF CloseInv
    <3>3. j \in DOMAIN instances \/ j = id
      BY <1>13
    <3> QED
      BY <3>1, <3>2, <3>3
  <2>4. phase # "run" => instances'[id].late
    BY <1>9, <1>12
  <2>5. phase # "run" => \A k \in DOMAIN finalizers' :
            k > left.at => finalizers'[k].id \in finalized \/ instances'[finalizers'[k].id].late
    <3> SUFFICES ASSUME phase # "run", NEW k \in DOMAIN finalizers', k > left.at
                 PROVE  finalizers'[k].id \in finalized \/ instances'[finalizers'[k].id].late
      OBVIOUS
    <3>1. CASE finalizers'[k] = entry
      BY <1>20, <2>4, <3>1
    <3>2. CASE finalizers'[k] # entry
      <4>1. k \in DOMAIN finalizers /\ finalizers'[k] = finalizers[k]
        BY <1>19, <3>2
      <4>2. IsOf(instances, finalizers[k].id, finalizers[k].name)
        BY <1>1, <4>1 DEF NameInv
      <4> QED
        BY <1>1, <1>13, <4>1, <4>2 DEF CloseInv, IsOf
    <3> QED
      BY <3>1, <3>2
  <2>6. \A i \in finalized : \E k \in DOMAIN finalizers' :
            k > left.at /\ finalizers'[k].name = instances'[i].name
    <3> TAKE i \in finalized
    <3>1. PICK k \in DOMAIN finalizers : k > left.at /\ finalizers[k].name = instances[i].name
      BY <1>1 DEF CloseInv
    <3>2. i \in DOMAIN instances
      BY <1>1 DEF ShapeInv
    <3> QED
      BY <1>13, <1>19, <3>1, <3>2
  <2> QED
    BY <1>1, <2>1, <2>2, <2>3, <2>5, <2>6 DEF CloseInv
<1> QED
  BY <1>17, <1>21, <1>22, <1>23, <1>24 DEF IInv

\* close() begins at the end of the finalizers.
LEMMA CloseStep ==
  ASSUME IInv, Close
  PROVE  IInv'
<1>1. /\ phase = "run" /\ phase' = "close" /\ left' = [at |-> Len(finalizers), size |-> Len(finalizers)]
      /\ UNCHANGED <<program, threadVars, systemVars, finalized, raised, overlap>>
  BY DEF Close
<1>2. DOMAIN finalizers = 1 .. Len(finalizers) /\ Len(finalizers) \in Nat
  BY LenProperties DEF IInv, ShapeInv
<1>3. left' \in [at : Nat, size : Nat] /\ left'.at = Len(finalizers) /\ left'.size = Len(finalizers)
  BY <1>1, <1>2
<1>4. ShapeInv' /\ NameInv' /\ CallInv' /\ OrderInv'
  BY <1>1, <1>3 DEF IInv, ShapeInv, NameInv, CallInv, Top, OrderInv, systemVars, threadVars
<1>5. CloseInv'
  <2>1. finalized' = {} /\ finalizers' = finalizers
    BY <1>1 DEF IInv, CloseInv, systemVars
  <2>2. \A k \in DOMAIN finalizers : ~(k > Len(finalizers))
    BY <1>2
  <2> QED
    BY <1>1, <1>2, <1>3, <2>1, <2>2 DEF CloseInv
<1> QED
  BY <1>4, <1>5 DEF IInv

\* It passes the finalizers one by one, the last first, as long as none is added.
LEMMA FinalizeStep ==
  ASSUME IInv, Finalize
  PROVE  IInv'
<1>1. phase = "close" /\ UNCHANGED <<program, threadVars, systemVars, raised, overlap>>
  BY DEF Finalize
<1>2. /\ ShapeInv /\ NameInv /\ CallInv /\ OrderInv /\ CloseInv
      /\ DOMAIN finalizers = 1 .. Len(finalizers) /\ Len(finalizers) \in Nat /\ left.at \in Nat /\ left.size \in Nat
  BY LenProperties DEF IInv, ShapeInv
<1>3. ASSUME UNCHANGED <<left, finalized>>, phase' = "raised" \/ (phase' = "closed" /\ left.at = 0)
      PROVE  IInv'
  BY <1>1, <1>2, <1>3 DEF IInv, ShapeInv, NameInv, CallInv, Top, OrderInv, CloseInv, systemVars, threadVars
<1>4. CASE left.size = Len(finalizers) /\ left.at >= 1
  <2>1. PICK k \in DOMAIN finalizers : k = left.at
    <3>1. left.at \in DOMAIN finalizers
      BY <1>2, <1>4 DEF CloseInv
    <3> QED
      BY <3>1
  <2>2. PICK i : i = finalizers[k].id
    OBVIOUS
  <2>3. /\ finalized' = finalized \cup {i} /\ left' = [left EXCEPT !.at = @ - 1]
        /\ phase' \in {"raised", "close"}
    BY <1>1, <1>2, <1>4, <2>1, <2>2 DEF Finalize
  <2>4. left' \in [at : Nat, size : Nat] /\ left'.at = k - 1 /\ left'.size = left.size
    <3>1. left \in [at : Nat, size : Nat]
      BY <1>2 DEF ShapeInv
    <3>2. left.at - 1 \in Nat
      BY <1>2, <1>4
    <3> QED
      BY <2>1, <2>3, <3>1, <3>2
  <2>5. IsOf(instances, i, finalizers[k].name)
    BY <1>2, <2>2 DEF NameInv
  <2>6. ShapeInv' /\ NameInv' /\ CallInv' /\ OrderInv'
    <3>1. UNCHANGED <<program, systemVars, threadVars>>
      BY <1>1
    <3>2. ShapeInv'
      BY <1>1, <1>2, <2>3, <2>4, <2>5 DEF ShapeInv, systemVars, threadVars, IsOf
    <3>3. NameInv'
      BY <1>2, <3>1 DEF NameInv, IsOf, systemVars
    <3>4. CallInv'
      BY <1>2, <3>1 DEF CallInv, Top, systemVars, threadVars
    <3>5. OrderInv'
      BY <1>2, <3>1 DEF OrderInv, systemVars
    <3> QED
      BY <3>2, <3>3, <3>4, <3>5
  <2>7. CloseInv'
    <3>1. UNCHANGED <<finalizers, instances>>
      BY <1>1 DEF systemVars
    <3>2. \A l \in DOMAIN finalizers : l > k - 1 => l = k \/ l > left.at
      BY <1>2, <2>1
    <3>3. \A l \in DOMAIN finalizers : l > left.at => l > k - 1
      BY <1>2, <2>1
    <3>4. left'.at <= left'.size /\ left'.size <= Len(finalizers)
      BY <1>2, <2>1, <2>4 DEF CloseInv
    <3>5. \A l \in DOMAIN finalizers : l > k - 1 => finalizers[l].id \in finalized' \/ instances[finalizers[l].id].late
      BY <1>1, <1>2, <2>2, <2>3, <3>2 DEF CloseInv
    <3>6. \A j \in finalized' : \E l \in DOMAIN finalizers : l > k - 1 /\ finalizers[l].name = instances[j].name
      <4> TAKE j \in finalized'
      <4>1. CASE j = i
        <5>1. k > k - 1
          BY <1>2
        <5> QED
          BY <2>5, <4>1, <5>1 DEF IsOf
      <4>2. CASE j \in finalized
        BY <1>2, <3>3, <4>2 DEF CloseInv
      <4> QED
        BY <2>3, <4>1, <4>2
    <3> QED
      BY <2>3, <2>4, <3>1, <3>4, <3>5, <3>6 DEF CloseInv
  <2> QED
    BY <2>6, <2>7 DEF IInv
<1>5. CASE ~(left.size = Len(finalizers) /\ left.at >= 1)
  <2>1. left.at < 1 => left.at = 0
    BY <1>2
  <2>2. left.size # Len(finalizers) \/ left.at < 1
    BY <1>2, <1>5
  <2> QED
    BY <1>3, <2>1, <2>2 DEF Finalize
<1> QED
  BY <1>4, <1>5

\* No service is made, nothing is resolved.
LEMMA InitInv == Init => IInv
<1> SUFFICES ASSUME Init PROVE IInv
  OBVIOUS
<1>1. /\ \A S : <<>> \in Seq(S)
      /\ Len(<<>>) = 0 /\ DOMAIN <<>> = {}
  BY EmptySeq
<1>2. IsInjective(<<>>)
  BY <1>1 DEF IsInjective
<1>3. ShapeInv
  BY <1>1, <1>2 DEF Init, ShapeInv
<1>4. CallInv
  <2>1. \A i \in 2 .. 0 : FALSE
    OBVIOUS
  <2> QED
    BY <1>1, <2>1 DEF Init, CallInv, StackInv
<1>5. NameInv /\ OrderInv /\ CloseInv
  BY <1>1 DEF Init, NameInv, OrderInv, CloseInv
<1> QED
  BY <1>3, <1>4, <1>5 DEF IInv

-----------------------------------------------------------------------------
\* The inductive invariant: instances are of the services they stand for, and the
\* finalizers are in the order of the templates.
THEOREM Invariance == Spec => []IInv
<1>1. IInv /\ [Next]_vars => IInv'
  <2> SUFFICES ASSUME IInv, [Next]_vars PROVE IInv'
    OBVIOUS
  <2>1. ASSUME NEW t \in Thread, Step(t) PROVE IInv'
    BY <2>1, CheckLoopInv, PushInv, NextParamInv, MakeInv, MakeFailsInv, PopInv, StoreInv DEF Step
  <2>2. ASSUME NEW t \in Thread, NEW s \in Service, Resolve(t, s) PROVE IInv'
    BY <2>2, ResolveInv
  <2>3. CASE Close \/ Finalize
    BY <2>3, CloseStep, FinalizeStep
  <2>4. CASE UNCHANGED vars
    BY <2>4 DEF vars, threadVars, systemVars, closeVars, IInv, ShapeInv, NameInv, CallInv, Top, OrderInv, CloseInv
  <2> QED
    BY <2>1, <2>2, <2>3, <2>4 DEF Next
<1> QED
  BY InitInv, <1>1, PTL DEF Spec

\* However many threads make services, and whatever is made again or late, a service
\* is finalized before what it uses, and close() leaves none out.
THEOREM UsersFinalizedFirst == Spec => []FinalizedInOrder
<1>1. IInv => FinalizedInOrder
  <2> SUFFICES ASSUME IInv PROVE FinalizedInOrder
    OBVIOUS
  <2>1. ShapeInv /\ NameInv /\ OrderInv /\ CloseInv
        /\ DOMAIN finalizers = 1 .. Len(finalizers) /\ Len(finalizers) \in Nat /\ left.at \in Nat
    BY LenProperties DEF IInv, ShapeInv
  <2>2. ASSUME NEW i \in finalized, NEW j \in DOMAIN instances, NEW k \in DOMAIN finalizers,
               finalizers[k].id = j, i \in instances[j].uses, ~instances[j].late
        PROVE  j \in finalized
    <3>1. PICK l \in DOMAIN finalizers : l > left.at /\ finalizers[l].name = instances[i].name
      BY <2>1 DEF CloseInv
    <3>2. instances[i].name \in Range(program.params[instances[j].name])
      BY <2>1, <2>2 DEF NameInv, IsOf
    <3>3. finalizers[k].name = instances[j].name /\ finalizers[l].name \in program.gens
      BY <2>1, <2>2 DEF NameInv, IsOf, OrderInv
    <3>4. PICK m \in DOMAIN finalizers : m < k /\ finalizers[m].name = instances[i].name
      BY <2>1, <3>1, <3>2, <3>3 DEF OrderInv
    <3>5. m = l
      BY <2>1, <3>1, <3>4 DEF OrderInv
    <3>6. k > left.at
      BY <2>1, <3>1, <3>4, <3>5
    <3>7. phase # "run"
      BY <2>1 DEF CloseInv
    <3> QED
      BY <2>1, <2>2, <3>6, <3>7 DEF CloseInv
  <2>3. phase = "closed" => \A k \in DOMAIN finalizers :
            finalizers[k].id \in finalized \/ instances[finalizers[k].id].late
    BY <2>1 DEF CloseInv
  <2> QED
    BY <2>2, <2>3 DEF FinalizedInOrder
<1> QED
  BY Invariance, <1>1, PTL

-----------------------------------------------------------------------------
\* Threads one at a time.  A step of t changes the calls of t, and no other thread has
\* any.
LEMMA OneThread ==
  ASSUME IInv, AloneInv, NEW t \in Thread, \A u \in Thread : u # t => frames[u] = <<>>,
         NEW r \in Seq(Frame), frames' = [frames EXCEPT ![t] = r],
         stack' \in Seq(Service), StackOf(stack', service', r),
         UNCHANGED program, OwnerInv', RaisedInv'
  PROVE  AloneInv'
<1>1. frames'[t] = r /\ \A u \in Thread : u # t => frames'[u] = <<>>
  BY DEF IInv, ShapeInv
<1>2. r = <<>> => stack' = <<>>
  <2>1. r = <<>> => Len(stack') = 0
    BY EmptySeq DEF StackOf, Depth
  <2> QED
    BY <2>1, EmptySeq
<1>3. \A u \in Thread : frames'[u] # <<>> => StackOf(stack', service', frames'[u])
  BY <1>1
<1>4. \A u, v \in Thread : frames'[u] # <<>> /\ frames'[v] # <<>> => u = v
  BY <1>1
<1>5. (\A u \in Thread : frames'[u] = <<>>) => stack' = <<>>
  BY <1>1, <1>2
<1>6. \A u \in Thread : frames'[u] # <<>> => StackOf(stack, service, frames[u])'
  BY <1>3 DEF StackOf, DependsOn, Depth
<1> QED
  BY <1>4, <1>5, <1>6 DEF AloneInv

\* The calls of t keep their names, and their innermost one its place in the stack.
LEMMA SameNames ==
  ASSUME NEW stk, NEW srv, NEW fr \in Seq(Frame), NEW r \in Seq(Frame), StackOf(stk, srv, fr),
         Len(r) = Len(fr), \A i \in 1 .. Len(fr) : r[i].name = fr[i].name,
         r # <<>> => Pushed(Head(r)) /\ Pushed(Head(fr))
  PROVE  StackOf(stk, srv, r)
<1>1. Len(fr) \in Nat /\ (r = <<>> <=> Len(r) = 0) /\ (fr = <<>> <=> Len(fr) = 0)
  BY EmptySeq, LenProperties
<1>2. Depth(r) = Depth(fr)
  BY <1>1 DEF Depth
<1>3. r # <<>> => Head(r).step \notin {"push", "store"}
  BY DEF Pushed
<1>4. \A m \in 1 .. Len(stk) : Len(fr) + 1 - m \in 1 .. Len(fr)
  <2>1. Len(stk) = Len(fr) \/ (Len(stk) = Len(fr) - 1)
    BY DEF StackOf, Depth
  <2> QED
    BY <1>1, <2>1
<1> QED
  BY <1>2, <1>3, <1>4 DEF StackOf

\* The innermost call goes on, its name the same.
LEMMA RenamedTop ==
  ASSUME NEW fr \in Seq(Frame), fr # <<>>, NEW f \in Frame, f.name = Head(fr).name,
         NEW r, r = [fr EXCEPT ![1] = f]
  PROVE  /\ r \in Seq(Frame) /\ Len(r) = Len(fr) /\ r # <<>> /\ Head(r) = f
         /\ \A i \in 1 .. Len(fr) : r[i].name = fr[i].name
<1>1. Len(fr) \in Nat \ {0} /\ 1 \in 1 .. Len(fr) /\ Head(fr) = fr[1]
  BY StackTop
<1>2. r \in Seq(Frame) /\ Len(r) = Len(fr) /\ \A i \in 1 .. Len(fr) : r[i] = IF i = 1 THEN f ELSE fr[i]
  BY <1>1, ExceptSeq
<1>3. r # <<>> /\ Head(r) = r[1]
  BY <1>1, <1>2, EmptySeq, StackTop
<1> QED
  BY <1>1, <1>2, <1>3

\* The stack and the calls are as they were.
LEMMA AloneStays ==
  ASSUME AloneInv, frames' = frames, stack' = stack, UNCHANGED program, OwnerInv', RaisedInv',
         \A u \in Thread : StackOf(stack', service', frames'[u]) <=> StackOf(stack, service, frames[u])
  PROVE  AloneInv'
<1>1. \A t, u \in Thread : frames'[t] # <<>> /\ frames'[u] # <<>> => t = u
  BY DEF AloneInv
<1>2. (\A t \in Thread : frames'[t] = <<>>) => stack' = <<>>
  BY DEF AloneInv
<1>3. \A t \in Thread : frames'[t] # <<>> => StackOf(stack', service', frames'[t])
  BY DEF AloneInv
<1>4. ASSUME NEW t \in Thread, frames'[t] # <<>>
      PROVE  StackOf(stack, service, frames[t])'
  <2>1. PICK g : g = frames'[t]
    OBVIOUS
  <2>2. StackOf(stack', service', g)
    BY <1>3, <1>4, <2>1
  <2>3. StackOf(stack, service, g)'
    BY <2>2 DEF StackOf, DependsOn, Depth
  <2> QED
    BY <2>1, <2>3 DEF StackOf, DependsOn, Depth
<1> QED
  BY <1>1, <1>2, <1>4 DEF AloneInv

\* A look-up of s by the calls fr of t, at the top of which is a template that names s.
LEMMA LookUpAlone ==
  ASSUME IInv, AloneInv, ~overlap', NEW t \in Thread, NEW s \in Service, LookUp(t, s), error[t] = None,
         frames[t] # <<>> => IsAt(program.params, Top(t), s),
         UNCHANGED <<program, error, systemVars, raised>>
  PROVE  AloneInv'
<1>1. ShapeInv /\ CallInv /\ NameInv
  BY DEF IInv
<1>2. PICK fr \in Seq(Frame) : fr = frames[t] /\ StackInv(program.params, instances, fr)
  BY <1>1 DEF ShapeInv, CallInv
<1>3. fr # <<>> => /\ Head(fr) \in Frame /\ Head(fr) = fr[1] /\ 1 \in 1 .. Len(fr)
                   /\ program.params[Head(fr).name] \in Seq(Service)
                   /\ IsAt(program.params, Head(fr), s)
  BY <1>1, <1>2, TopCall, StackTop DEF Top
<1>4. fr # <<>> => Pushed(Head(fr)) /\ ~At(t, {"pop", "store"})
  BY <1>2, <1>3 DEF IsAt, Pushed, At, Top
<1>5. fr # <<>> => StackOf(stack, service, fr) /\ \A u \in Thread : u # t => frames[u] = <<>>
  BY <1>2 DEF AloneInv
<1>6. RaisedInv'
  BY DEF AloneInv, RaisedInv, OnLoop, DependsOn
<1>7. UNCHANGED <<instances, service, stack>> /\ stack \in Seq(Service)
  BY <1>1 DEF systemVars, ShapeInv
<1>8. CASE service[s] # 0
  <2>1. PICK id \in Nat : id = service[s] /\ IsOf(instances, id, s)
    BY <1>1, <1>8 DEF ShapeInv, NameInv
  <2>2. PICK r : r = Returned(fr, id)
    OBVIOUS
  <2>3. /\ r \in Seq(Frame) /\ Len(r) = Len(fr)
        /\ \A i \in 1 .. Len(fr) : r[i].name = fr[i].name
        /\ r # <<>> => fr # <<>> /\ Head(r).step = "params"
    BY <1>2, <1>3, <2>1, <2>2, ReturnStack
  <2>4. frames' = [frames EXCEPT ![t] = r] /\ overlap' = overlap
    BY <1>2, <1>8, <2>1, <2>2 DEF LookUp
  <2>5. CASE fr = <<>>
    <3>1. r = <<>>
      BY <2>3, <2>5
    <3>2. frames' = frames
      BY <1>1, <1>2, <2>4, <2>5, <3>1 DEF ShapeInv
    <3>3. OwnerInv' <=> OwnerInv
      BY <1>7, <3>2 DEF OwnerInv, At, Top
    <3>4. ASSUME NEW u \in Thread
          PROVE  StackOf(stack', service', frames'[u]) <=> StackOf(stack, service, frames[u])
      BY <1>7, <3>2
    <3>5. OwnerInv'
      BY <3>3 DEF AloneInv
    <3> QED
      BY <1>6, <1>7, <3>2, <3>4, <3>5, AloneStays DEF systemVars
  <2>6. CASE fr # <<>>
    <3>1. StackOf(stack', service', r)
      BY <1>2, <1>4, <1>5, <1>7, <2>3, <2>6, SameNames DEF Pushed
    <3>2. OwnerInv'
      <4>1. \A u \in Thread : ~At(u, {"pop", "store"})
        BY <1>4, <1>5, <2>6 DEF At
      <4> QED
        BY <1>7, <4>1 DEF AloneInv, OwnerInv
    <3> QED
      BY <1>5, <1>6, <1>7, <2>3, <2>4, <2>6, <3>1, <3>2, OneThread
  <2> QED
    BY <2>5, <2>6
<1>9. CASE service[s] = 0
  <2>1. PICK f \in Frame : f = [name |-> s, step |-> "check", used |-> <<>>, made |-> 0]
    <3>1. <<>> \in Seq(Nat)
      BY EmptySeq
    <3>2. [name |-> s, step |-> "check", used |-> <<>>, made |-> 0] \in Frame
      BY <3>1 DEF Frame, Steps
    <3> QED
      BY <3>2
  <2>2. f.name = s /\ f.step = "check"
    BY <2>1
  <2>3. PICK r : r = <<f>> \o fr
    OBVIOUS
  <2>4. /\ r \in Seq(Frame) /\ Len(r) = Len(fr) + 1 /\ r # <<>> /\ Head(r) = f /\ r[1] = f
        /\ \A i \in 1 .. Len(fr) : r[i + 1] = fr[i]
        /\ Len(fr) \in Nat
    BY <2>3, PushedOn, LenProperties
  <2>5. frames' = [frames EXCEPT ![t] = r] /\ \A u \in Thread : u # t => frames[u] = <<>>
    BY <1>2, <1>9, <2>1, <2>3 DEF LookUp
  <2>6. fr = <<>> => stack = <<>> /\ Len(stack) = 0 /\ Len(fr) = 0
    BY <1>2, <2>5, EmptySeq DEF AloneInv
  <2>7. Len(stack) = Len(fr) /\ Depth(r) = Len(fr)
    BY <1>4, <1>5, <2>2, <2>4, <2>6 DEF StackOf, Depth, Pushed
  <2>8. \A i \in 2 .. Len(r) : i - 1 \in 1 .. Len(fr) /\ r[i] = fr[i - 1]
    <3> TAKE i \in 2 .. Len(r)
    <3>1. i - 1 \in 1 .. Len(fr) /\ (i - 1) + 1 = i
      BY <2>4
    <3> QED
      BY <2>4, <3>1
  <2>9. \A m \in 1 .. Len(stack) : stack[m] = r[Len(r) + 1 - m].name
    <3> TAKE m \in 1 .. Len(stack)
    <3>1. Len(fr) + 1 - m \in 1 .. Len(fr) /\ Len(r) + 1 - m = (Len(fr) + 1 - m) + 1 /\ fr # <<>>
      BY <2>4, <2>6, <2>7
    <3>2. r[Len(r) + 1 - m] = fr[Len(fr) + 1 - m]
      BY <2>4, <3>1
    <3> QED
      BY <1>5, <3>1, <3>2 DEF StackOf
  <2>10. \A i, j \in 1 .. Len(r) : i < j => DependsOn(r[j].name, r[i].name)
    <3> SUFFICES ASSUME NEW i \in 1 .. Len(r), NEW j \in 1 .. Len(r), i < j
                 PROVE  DependsOn(r[j].name, r[i].name)
      OBVIOUS
    <3>1. j \in 2 .. Len(r) /\ j - 1 \in 1 .. Len(fr) /\ r[j] = fr[j - 1] /\ fr # <<>>
      BY <2>4, <2>6, <2>8
    <3>2. CASE i # 1
      <4>1. i - 1 \in 1 .. Len(fr) /\ r[i] = fr[i - 1] /\ i - 1 < j - 1
        BY <2>4, <2>8, <3>2
      <4> QED
        BY <1>5, <3>1, <4>1 DEF StackOf
    <3>3. CASE i = 1
      <4>1. s \in Range(program.params[Head(fr).name])
        <5>1. PICK n : n = Len(Head(fr).used) + 1
          OBVIOUS
        <5>2. program.params[Head(fr).name][n] = s /\ Len(Head(fr).used) < Len(program.params[Head(fr).name])
          BY <1>3, <3>1, <5>1 DEF IsAt
        <5>3. Len(Head(fr).used) \in Nat
          BY <1>3, <3>1, LenProperties DEF Frame
        <5>4. n \in DOMAIN program.params[Head(fr).name]
          BY <1>3, <3>1, <5>1, <5>2, <5>3, LenProperties
        <5> QED
          BY <5>2, <5>4 DEF Range
      <4>2. CASE j = 2
        BY <1>3, <2>2, <2>4, <3>1, <3>3, <4>1, <4>2 DEF DependsOn
      <4>3. CASE j # 2
        <5>1. DependsOn(fr[j - 1].name, fr[1].name)
          BY <1>3, <1>5, <3>1, <3>3, <4>3 DEF StackOf
        <5> QED
          BY <1>3, <2>2, <2>4, <3>1, <3>3, <4>1, <5>1 DEF DependsOn
      <4> QED
        BY <4>2, <4>3
    <3> QED
      BY <3>2, <3>3
  <2>11. \A i \in 1 .. Len(r) : service[r[i].name] = 0
    <3> TAKE i \in 1 .. Len(r)
    <3>1. CASE i = 1
      BY <1>9, <2>2, <2>4, <3>1
    <3>2. CASE i # 1
      <4>1. i - 1 \in 1 .. Len(fr) /\ r[i] = fr[i - 1] /\ fr # <<>>
        BY <2>4, <2>6, <2>8, <3>2
      <4> QED
        BY <1>5, <4>1 DEF StackOf
    <3> QED
      BY <3>1, <3>2
  <2>12. StackOf(stack', service', r)
    BY <1>7, <2>2, <2>4, <2>7, <2>9, <2>10, <2>11 DEF StackOf
  <2>13. OwnerInv'
    <3>1. \A u \in Thread : ~At(u, {"pop", "store"})
      BY <1>2, <1>4, <2>5 DEF At
    <3> QED
      BY <1>7, <3>1 DEF AloneInv, OwnerInv
  <2> QED
    BY <1>6, <1>7, <2>4, <2>5, <2>12, <2>13, OneThread
<1> QED
  BY <1>8, <1>9

\* A call ends: its name is not in the stack, or has been the last there.
LEMMA TailOf ==
  ASSUME NEW stk \in Seq(Service), NEW srv, NEW fr \in Seq(Frame), fr # <<>>, StackOf(stk, srv, fr),
         NEW r, r = Tail(fr), r # <<>> => Pushed(Head(r)),
         NEW new, new = IF Pushed(Head(fr)) THEN Front(stk) ELSE stk
  PROVE  StackOf(new, srv, r) /\ r \in Seq(Frame) /\ new \in Seq(Service)
<1>1. PICK n \in Nat : n = Len(fr) /\ n > 0
  BY StackTop
<1>2. r \in Seq(Frame) /\ Len(r) = n - 1 /\ \A i \in 1 .. n - 1 : r[i] = fr[i + 1]
  BY <1>1, StackTop
<1>3. Depth(r) = n - 1
  BY <1>2 DEF Depth
<1>4. Len(stk) = IF Pushed(Head(fr)) THEN n ELSE n - 1
  BY <1>1 DEF StackOf, Depth
<1>5. new \in Seq(Service) /\ Len(new) = n - 1 /\ \A m \in 1 .. n - 1 : m \in 1 .. Len(stk) /\ new[m] = stk[m]
  <2>1. CASE Pushed(Head(fr))
    <3>1. stk # <<>>
      BY <1>1, <1>4, <2>1, EmptySeq
    <3> QED
      BY <1>1, <1>4, <2>1, <3>1, PoppedStack
  <2>2. CASE ~Pushed(Head(fr))
    BY <1>1, <1>4, <2>2
  <2> QED
    BY <2>1, <2>2
<1>6. \A m \in 1 .. Len(new) : new[m] = r[Len(r) + 1 - m].name
  <2> TAKE m \in 1 .. Len(new)
  <2>1. m \in 1 .. n - 1 /\ n - m \in 1 .. n - 1 /\ (n - m) + 1 = n + 1 - m /\ Len(r) + 1 - m = n - m
    BY <1>1, <1>2, <1>5
  <2>2. new[m] = fr[n + 1 - m].name /\ r[n - m] = fr[n + 1 - m]
    BY <1>1, <1>2, <1>5, <2>1 DEF StackOf
  <2> QED
    BY <2>1, <2>2
<1>7. \A i \in 1 .. n - 1 : i + 1 \in 1 .. n
  BY <1>1
<1>8. \A i, j \in 1 .. Len(r) : i < j => DependsOn(r[j].name, r[i].name)
  <2> SUFFICES ASSUME NEW i \in 1 .. Len(r), NEW j \in 1 .. Len(r), i < j
               PROVE  DependsOn(r[j].name, r[i].name)
    OBVIOUS
  <2>1. i + 1 \in 1 .. n /\ j + 1 \in 1 .. n /\ i + 1 < j + 1 /\ r[i] = fr[i + 1] /\ r[j] = fr[j + 1]
    BY <1>1, <1>2
  <2> QED
    BY <1>1, <2>1 DEF StackOf
<1>9. \A i \in 1 .. Len(r) : srv[r[i].name] = 0
  BY <1>1, <1>2, <1>7 DEF StackOf
<1>10. r # <<>> => Head(r).step \notin {"push", "store"}
  BY DEF Pushed
<1> QED
  BY <1>2, <1>3, <1>5, <1>6, <1>8, <1>9, <1>10 DEF StackOf

\* The thread that has calls, and the one at its top.
LEMMA AloneTop ==
  ASSUME IInv, AloneInv, NEW t \in Thread, frames[t] # <<>>
  PROVE  /\ \A u \in Thread : u # t => frames[u] = <<>>
         /\ StackOf(stack, service, frames[t]) /\ frames[t] \in Seq(Frame)
         /\ stack \in Seq(Service) /\ IsInjective(stack)
         /\ Head(frames[t]) = Top(t) /\ frames[t][1] = Top(t) /\ Len(frames[t]) \in Nat \ {0}
         /\ Tail(frames[t]) # <<>> => Pushed(Head(Tail(frames[t])))
<1>1. Tail(frames[t]) # <<>> => Pushed(Head(Tail(frames[t])))
  <2>1. StackInv(program.params, instances, frames[t]) /\ frames[t] \in Seq(Frame)
    BY DEF IInv, CallInv, ShapeInv
  <2> QED
    BY <2>1, TailStack DEF IsAt, Pushed
<1> QED
  BY <1>1, TopCall DEF IInv, ShapeInv, AloneInv, Top

\* An exception leaves a call, and the stack is left as it has to be.
LEMMA LeaveAlone ==
  ASSUME IInv, AloneInv, NEW t \in Thread, frames[t] # <<>>, NEW x \in {"loop", "broken"}, Leave(t, x),
         stack' = IF Pushed(Top(t)) THEN Front(stack) ELSE stack,
         ~At(t, {"pop", "store"}), UNCHANGED <<program, instances, service>>,
         x = "loop" => \E s \in Service : OnLoop(s)
  PROVE  AloneInv'
<1>1. /\ \A u \in Thread : u # t => frames[u] = <<>>
      /\ StackOf(stack, service, frames[t]) /\ frames[t] \in Seq(Frame)
      /\ stack \in Seq(Service) /\ Head(frames[t]) = Top(t)
      /\ Tail(frames[t]) # <<>> => Pushed(Head(Tail(frames[t])))
  BY AloneTop
<1>2. PICK r : r = Tail(frames[t])
  OBVIOUS
<1>3. StackOf(stack', service', r) /\ r \in Seq(Frame) /\ stack' \in Seq(Service)
  <2>1. PICK fr \in Seq(Frame) : fr = frames[t] /\ fr # <<>>
    BY <1>1
  <2>2. PICK new : new = stack' /\ new = IF Pushed(Head(fr)) THEN Front(stack) ELSE stack
    BY <1>1, <2>1
  <2>3. StackOf(stack, service, fr) /\ r = Tail(fr) /\ (r # <<>> => Pushed(Head(r)))
    BY <1>1, <1>2, <2>1
  <2>4. StackOf(new, service, r) /\ r \in Seq(Frame) /\ new \in Seq(Service)
    BY <1>1, <2>1, <2>2, <2>3, TailOf
  <2> QED
    BY <2>2, <2>4
<1>4. frames' = [frames EXCEPT ![t] = r] /\ raised' = raised \cup {x}
  BY <1>2 DEF Leave
<1>5. \A u \in Thread : error'[u] \in {error[u], x, None}
  BY DEF Leave, IInv, ShapeInv
<1>6. RaisedInv'
  <2>1. \A u \in Thread : error'[u] \in {"loop", "empty"} => error'[u] \in raised'
    BY <1>4, <1>5, ServicesAssumption DEF AloneInv, RaisedInv
  <2>2. "empty" \notin raised'
    BY <1>4 DEF AloneInv, RaisedInv
  <2>3. "loop" \in raised' => \E s \in Service : OnLoop(s)
    BY <1>4 DEF AloneInv, RaisedInv
  <2> QED
    BY <2>1, <2>2, <2>3 DEF RaisedInv, OnLoop, DependsOn
<1>7. OwnerInv'
  <2>1. \A u \in Thread : ~At(u, {"pop", "store"})
    BY <1>1 DEF At
  <2> QED
    BY <2>1 DEF AloneInv, OwnerInv
<1> QED
  BY <1>1, <1>3, <1>4, <1>6, <1>7, OneThread

\* A service that is on the stack already is one that the template at the top depends on,
\* over the templates of the calls below it.
LEMMA CheckLoopAlone ==
  ASSUME IInv, AloneInv, NEW t \in Thread, CheckLoop(t)
  PROVE  AloneInv'
<1>1. /\ frames[t] # <<>> /\ error[t] = None /\ Top(t).step = "check"
      /\ UNCHANGED <<program, calls, systemVars, closeVars, overlap>>
      /\ IF Top(t).name \in Range(stack)
         THEN Leave(t, "loop")
         ELSE Goto(t, "push") /\ UNCHANGED <<error, raised>>
  BY DEF CheckLoop, At
<1>2. UNCHANGED <<instances, service, stack>> /\ ~Pushed(Top(t)) /\ ~At(t, {"pop", "store"})
  BY <1>1 DEF systemVars, Pushed, At
<1>3. PICK fr \in Seq(Frame) : fr = frames[t]
  BY <1>1, AloneTop
<1>4. /\ \A u \in Thread : u # t => frames[u] = <<>>
      /\ StackOf(stack, service, fr) /\ stack \in Seq(Service) /\ fr # <<>>
      /\ Head(fr) = Top(t) /\ fr[1] = Top(t) /\ Len(fr) \in Nat \ {0} /\ Top(t) \in Frame
  BY <1>1, <1>3, AloneTop, TopCall DEF IInv
<1>5. CASE Top(t).name \in Range(stack)
  <2>1. PICK m \in 1 .. Len(stack) : stack[m] = Top(t).name
    BY <1>4, <1>5, LenProperties DEF Range
  <2>2. Len(stack) = Len(fr) - 1
    BY <1>2, <1>4 DEF StackOf, Depth
  <2>3. PICK j : j = Len(fr) + 1 - m
    OBVIOUS
  <2>4. j \in 1 .. Len(fr) /\ 1 \in 1 .. Len(fr) /\ 1 < j
    BY <1>4, <2>1, <2>2, <2>3
  <2>5. fr[j].name = Top(t).name /\ DependsOn(fr[j].name, fr[1].name)
    BY <1>4, <2>1, <2>3, <2>4 DEF StackOf
  <2>6. Top(t).name \in Service /\ OnLoop(Top(t).name)
    BY <1>4, <2>5 DEF OnLoop, Frame
  <2> QED
    BY <1>1, <1>2, <1>5, <2>6, LeaveAlone
<1>6. CASE Top(t).name \notin Range(stack)
  <2>1. PICK f : f = [Top(t) EXCEPT !.step = "push"]
    OBVIOUS
  <2>2. f \in Frame /\ f.name = Top(t).name /\ f.step = "push"
    BY <1>4, <2>1 DEF Frame, Steps
  <2>3. PICK r : r = [fr EXCEPT ![1] = f]
    OBVIOUS
  <2>4. /\ r \in Seq(Frame) /\ Len(r) = Len(fr) /\ r # <<>> /\ Head(r) = f
        /\ \A i \in 1 .. Len(fr) : r[i].name = fr[i].name
    BY <1>4, <2>2, <2>3, RenamedTop
  <2>5. frames' = [frames EXCEPT ![t] = r]
    BY <1>1, <1>3, <1>4, <1>6, <2>1, <2>3 DEF Goto, IInv, ShapeInv
  <2>6. Depth(r) = Depth(fr)
    BY <1>2, <1>4, <2>2, <2>4 DEF Depth, Pushed
  <2>7. StackOf(stack', service', r)
    <3>1. \A m \in 1 .. Len(stack) : Len(fr) + 1 - m \in 1 .. Len(fr)
      BY <1>2, <1>4 DEF StackOf, Depth
    <3> QED
      BY <1>2, <1>4, <1>6, <2>2, <2>4, <2>6, <3>1 DEF StackOf
  <2>8. OwnerInv'
    <3>1. \A u \in Thread : ~At(u, {"pop", "store"})
      BY <1>2, <1>4 DEF At
    <3> QED
      BY <1>2, <3>1 DEF AloneInv, OwnerInv
  <2>9. RaisedInv'
    BY <1>1, <1>6 DEF AloneInv, RaisedInv, OnLoop, DependsOn
  <2> QED
    BY <1>1, <1>2, <1>4, <2>4, <2>5, <2>7, <2>8, <2>9, OneThread
<1> QED
  BY <1>5, <1>6

\* The name of a call is pushed: it is the last of the stack.
LEMMA PushAlone ==
  ASSUME IInv, AloneInv, NEW t \in Thread, Push(t)
  PROVE  AloneInv'
<1>1. /\ frames[t] # <<>> /\ error[t] = None /\ Top(t).step = "push" /\ Goto(t, "params")
      /\ UNCHANGED <<program, calls, error, instances, service, finalizers, closeVars, raised, overlap>>
      /\ stack' = IF Top(t).name \in Range(stack) THEN stack ELSE Append(stack, Top(t).name)
  BY DEF Push, At
<1>2. PICK fr \in Seq(Frame) : fr = frames[t]
  BY <1>1, AloneTop
<1>3. /\ \A u \in Thread : u # t => frames[u] = <<>>
      /\ StackOf(stack, service, fr) /\ stack \in Seq(Service) /\ fr # <<>>
      /\ Head(fr) = Top(t) /\ fr[1] = Top(t) /\ Len(fr) \in Nat \ {0} /\ Top(t) \in Frame
  BY <1>1, <1>2, AloneTop, TopCall DEF IInv
<1>4. PICK x \in Service : x = Top(t).name
  BY <1>3 DEF Frame
<1>5. x \notin Range(stack) /\ Len(stack) = Len(fr) - 1 /\ ~At(t, {"pop", "store"})
  BY <1>1, <1>3, <1>4 DEF StackOf, Depth, Pushed, At
<1>6. PICK f : f = [Top(t) EXCEPT !.step = "params"]
  OBVIOUS
<1>7. f \in Frame /\ f.name = Top(t).name /\ f.step = "params"
  BY <1>3, <1>6 DEF Frame, Steps
<1>8. PICK r : r = [fr EXCEPT ![1] = f]
  OBVIOUS
<1>9. /\ r \in Seq(Frame) /\ Len(r) = Len(fr) /\ r # <<>> /\ Head(r) = f
      /\ \A i \in 1 .. Len(fr) : r[i].name = fr[i].name
  BY <1>3, <1>7, <1>8, RenamedTop
<1>10. frames' = [frames EXCEPT ![t] = r]
  BY <1>1, <1>2, <1>3, <1>6, <1>8 DEF Goto, IInv, ShapeInv
<1>11. PICK stk \in Seq(Service) :
          /\ stk = Append(stack, x) /\ Len(stk) = Len(stack) + 1
          /\ stk[Len(stack) + 1] = x /\ \A m \in 1 .. Len(stack) : stk[m] = stack[m]
  <2>1. /\ Append(stack, x) \in Seq(Service) /\ Len(Append(stack, x)) = Len(stack) + 1
        /\ Append(stack, x)[Len(stack) + 1] = x
        /\ \A m \in 1 .. Len(stack) : Append(stack, x)[m] = stack[m]
    BY <1>3, AppendProperties
  <2> QED
    BY <2>1
<1>12. stack' = stk /\ Len(stk) = Len(fr) /\ Depth(r) = Len(fr)
  BY <1>1, <1>3, <1>4, <1>5, <1>7, <1>9, <1>11 DEF Depth, Pushed
<1>13. \A m \in 1 .. Len(stk) : stk[m] = r[Len(r) + 1 - m].name
  <2> TAKE m \in 1 .. Len(stk)
  <2>1. Len(fr) + 1 - m \in 1 .. Len(fr) /\ Len(r) + 1 - m = Len(fr) + 1 - m
    BY <1>3, <1>9, <1>12
  <2>2. CASE m = Len(fr)
    <3>1. Len(fr) + 1 - m = 1 /\ m = Len(stack) + 1
      BY <1>3, <1>5, <2>2
    <3> QED
      BY <1>3, <1>4, <1>9, <1>11, <2>1, <3>1
  <2>3. CASE m # Len(fr)
    <3>1. m \in 1 .. Len(stack)
      BY <1>3, <1>5, <1>12, <2>3
    <3> QED
      BY <1>3, <1>9, <1>11, <2>1, <3>1 DEF StackOf
  <2> QED
    BY <2>2, <2>3
<1>14. StackOf(stack', service', r)
  BY <1>1, <1>3, <1>7, <1>9, <1>12, <1>13 DEF StackOf
<1>15. OwnerInv' /\ RaisedInv'
  <2>1. \A u \in Thread : ~At(u, {"pop", "store"})
    BY <1>3, <1>5 DEF At
  <2> QED
    BY <1>1, <2>1 DEF AloneInv, OwnerInv, RaisedInv, OnLoop, DependsOn
<1> QED
  BY <1>1, <1>3, <1>9, <1>10, <1>12, <1>14, <1>15, OneThread

\* Nobody else is making the service, and there is no instance of it.
LEMMA MakeAlone ==
  ASSUME IInv, AloneInv, NEW t \in Thread, Make(t)
  PROVE  AloneInv'
<1>1. PICK fr \in Seq(Frame) : fr = frames[t] /\ fr # <<>>
  BY AloneTop DEF Make, Made, At
<1>2. /\ \A u \in Thread : u # t => frames[u] = <<>>
      /\ StackOf(stack, service, fr) /\ stack \in Seq(Service)
      /\ Head(fr) = Top(t) /\ fr[1] = Top(t) /\ Len(fr) \in Nat \ {0} /\ Top(t) \in Frame
  BY <1>1, AloneTop, TopCall DEF IInv
<1>3. PICK id \in Nat : id = Len(instances) + 1 /\ instances \in Seq(Instance) /\ Len(instances) \in Nat
                        /\ DOMAIN instances = 1 .. Len(instances)
  BY LenProperties DEF IInv, ShapeInv
<1>4. PICK new : new = [name |-> Top(t).name, uses |-> Range(Top(t).used), late |-> phase # "run"]
  OBVIOUS
<1>5. PICK f : f = [Top(t) EXCEPT !.step = "pop", !.made = id]
  OBVIOUS
<1>6. f \in Frame /\ f.name = Top(t).name /\ f.step = "pop" /\ f.made = id
  BY <1>2, <1>5 DEF Frame, Steps
<1>7. PICK r : r = [fr EXCEPT ![1] = f]
  OBVIOUS
<1>8. /\ error[t] = None /\ Top(t).step = "params" /\ instances' = Append(instances, new)
      /\ frames' = [frames EXCEPT ![t] = r]
      /\ UNCHANGED <<program, calls, error, service, stack, closeVars, raised, overlap>>
  BY <1>1, <1>2, <1>3, <1>4, <1>5, <1>7 DEF Make, Made, At, IInv, ShapeInv
<1>9. /\ r \in Seq(Frame) /\ Len(r) = Len(fr) /\ r # <<>> /\ Head(r) = f
      /\ \A i \in 1 .. Len(fr) : r[i].name = fr[i].name
  BY <1>1, <1>2, <1>6, <1>7, RenamedTop
<1>10. StackOf(stack', service', r)
  BY <1>2, <1>6, <1>8, <1>9, SameNames DEF Pushed
<1>11. new.name = Top(t).name /\ new \in Instance
  <2>1. Top(t).used \in Seq(Nat) /\ Top(t).name \in Service
    BY <1>2 DEF Frame
  <2>2. Range(Top(t).used) \subseteq Nat
    BY <2>1, RangeOfSeq
  <2> QED
    BY <1>4, <2>1, <2>2 DEF Instance
<1>12. /\ Len(instances') = id /\ instances'[id] = new /\ DOMAIN instances' = 1 .. id
       /\ \A i \in 1 .. Len(instances) : instances'[i] = instances[i]
  BY <1>3, <1>8, <1>11, AppendProperties, LenProperties
<1>13. frames'[t] = r /\ Top(t)' = f
  BY <1>8, <1>9 DEF IInv, ShapeInv, Top
<1>14. At(t, {"pop", "store"})' /\ Top(t)'.made = id
  BY <1>6, <1>8, <1>9, <1>13 DEF At
<1>15. OwnerInv'
  <2> SUFFICES ASSUME NEW i \in DOMAIN instances'
               PROVE  service'[instances'[i].name] = i
                      \/ \E u \in Thread : At(u, {"pop", "store"})' /\ Top(u)'.made = i
    BY DEF OwnerInv
  <2>1. CASE i = id
    BY <1>14, <2>1
  <2>2. CASE i # id
    <3>1. i \in DOMAIN instances /\ instances'[i] = instances[i]
      BY <1>3, <1>12, <2>2
    <3>2. \A u \in Thread : ~At(u, {"pop", "store"})
      BY <1>2, <1>8 DEF At
    <3> QED
      BY <1>8, <3>1, <3>2 DEF AloneInv, OwnerInv
  <2> QED
    BY <2>1, <2>2
<1>16. RaisedInv'
  BY <1>8 DEF AloneInv, RaisedInv, OnLoop, DependsOn
<1> QED
  BY <1>2, <1>8, <1>9, <1>10, <1>15, <1>16, OneThread

\* Threads that take turns leave a clean stack after an error as well.
LEMMA MakeFailsAlone ==
  ASSUME IInv, AloneInv, NEW t \in Thread, MakeFails(t)
  PROVE  AloneInv'
<1>1. /\ frames[t] # <<>> /\ error[t] = None /\ Top(t).step = "params" /\ error' = [error EXCEPT ![t] = "broken"]
      /\ UNCHANGED <<program, calls, frames, instances, service, stack, raised, overlap>>
  BY DEF MakeFails, At, systemVars
<1>2. OwnerInv'
  <2>1. \A u \in Thread : ~At(u, {"pop", "store"})
    BY <1>1, AloneTop DEF At
  <2> QED
    BY <1>1, <2>1 DEF AloneInv, OwnerInv
<1>3. RaisedInv'
  BY <1>1 DEF AloneInv, RaisedInv, OnLoop, DependsOn, IInv, ShapeInv
<1> QED
  BY <1>1, <1>2, <1>3 DEF AloneInv, StackOf, Depth, DependsOn

\* The item that popitem() takes is that of the call.
LEMMA PopAlone ==
  ASSUME IInv, AloneInv, NEW t \in Thread, Pop(t)
  PROVE  AloneInv'
<1>1. /\ frames[t] # <<>> /\ (error[t] # None \/ Top(t).step = "pop")
      /\ UNCHANGED <<program, calls, instances, service, finalizers, closeVars, overlap>>
      /\ stack' = IF stack = <<>> THEN <<>> ELSE Front(stack)
  BY DEF Pop
<1>2. PICK fr \in Seq(Frame) : fr = frames[t]
  BY <1>1, AloneTop
<1>3. /\ \A u \in Thread : u # t => frames[u] = <<>>
      /\ StackOf(stack, service, fr) /\ stack \in Seq(Service) /\ IsInjective(stack) /\ fr # <<>>
      /\ Head(fr) = Top(t) /\ fr[1] = Top(t) /\ Len(fr) \in Nat \ {0} /\ Top(t) \in Frame
  BY <1>1, <1>2, AloneTop, TopCall DEF IInv
<1>4. Pushed(Top(t)) /\ Len(stack) = Len(fr)
  <2>1. Pushed(Top(t))
    BY <1>1 DEF IInv, CallInv, Pushed
  <2> QED
    BY <1>3, <2>1 DEF StackOf, Depth
<1>5. stack # <<>>
  BY <1>3, <1>4, EmptySeq
<1>6. /\ Front(stack) \in Seq(Service) /\ Len(Front(stack)) = Len(stack) - 1
      /\ \A m \in 1 .. Len(stack) - 1 : Front(stack)[m] = stack[m]
  BY <1>3, <1>5, PoppedStack
<1>7. CASE error[t] # None
  <2>1. Leave(t, error[t]) /\ ~At(t, {"pop", "store"})
    BY <1>5, <1>7 DEF Pop, At
  <2>2. error[t] \in {"loop", "broken"}
    BY <1>7 DEF IInv, ShapeInv, AloneInv, RaisedInv
  <2>3. error[t] = "loop" => \E s \in Service : OnLoop(s)
    BY DEF AloneInv, RaisedInv
  <2> QED
    BY <1>1, <1>4, <1>5, <2>1, <2>2, <2>3, LeaveAlone
<1>8. CASE error[t] = None
  <2>1. Top(t).step = "pop" /\ Goto(t, "store") /\ UNCHANGED <<error, raised>>
    BY <1>1, <1>5, <1>8 DEF Pop
  <2>2. PICK f : f = [Top(t) EXCEPT !.step = "store"]
    OBVIOUS
  <2>3. f \in Frame /\ f.name = Top(t).name /\ f.step = "store" /\ f.made = Top(t).made
    BY <1>3, <2>2 DEF Frame, Steps
  <2>4. PICK r : r = [fr EXCEPT ![1] = f]
    OBVIOUS
  <2>5. /\ r \in Seq(Frame) /\ Len(r) = Len(fr) /\ r # <<>> /\ Head(r) = f
        /\ \A i \in 1 .. Len(fr) : r[i].name = fr[i].name
    BY <1>3, <2>3, <2>4, RenamedTop
  <2>6. frames' = [frames EXCEPT ![t] = r]
    BY <1>2, <1>3, <2>1, <2>2, <2>4 DEF Goto, IInv, ShapeInv
  <2>7. PICK stk \in Seq(Service) : stk = Front(stack) /\ stk = stack'
    BY <1>1, <1>5, <1>6
  <2>8. /\ Len(stk) = Len(fr) - 1 /\ \A m \in 1 .. Len(stk) : m \in 1 .. Len(stack) /\ stk[m] = stack[m]
    BY <1>3, <1>4, <1>6, <2>7
  <2>9. f.name \notin Range(stk)
    <3>1. Len(stack) + 1 - Len(stack) = 1 /\ Len(stack) \in 1 .. Len(stack)
      BY <1>3, <1>4
    <3>2. stack[Len(stack)] = f.name
      BY <1>3, <1>4, <2>3, <3>1 DEF StackOf
    <3>3. DOMAIN stk = 1 .. Len(stk) /\ DOMAIN stack = 1 .. Len(stack)
      BY <1>3, LenProperties
    <3>4. \A m \in 1 .. Len(stk) : m # Len(stack)
      BY <1>3, <1>4, <2>8
    <3>5. \A m \in 1 .. Len(stk) : stack[m] # stack[Len(stack)]
      BY <1>3, <2>8, <3>1, <3>3, <3>4 DEF IsInjective
    <3> QED
      BY <2>8, <3>2, <3>3, <3>5 DEF Range
  <2>10. Depth(r) = Len(fr) - 1
    BY <2>3, <2>5 DEF Depth, Pushed
  <2>11. \A m \in 1 .. Len(stk) : Len(fr) + 1 - m \in 1 .. Len(fr)
    BY <1>3, <2>8
  <2>12. StackOf(stack', service', r)
    <3>1. /\ \A m \in 1 .. Len(stack) : stack[m] = fr[Len(fr) + 1 - m].name
          /\ \A i, j \in 1 .. Len(fr) : i < j => DependsOn(fr[j].name, fr[i].name)
          /\ \A i \in 1 .. Len(fr) : service[fr[i].name] = 0
      BY <1>3, <1>4 DEF StackOf
    <3>2. \A m \in 1 .. Len(stk) : stk[m] = r[Len(r) + 1 - m].name
      BY <2>5, <2>8, <2>11, <3>1
    <3>3. \A i, j \in 1 .. Len(r) : i < j => DependsOn(r[j].name, r[i].name)
      BY <2>5, <3>1
    <3>4. \A i \in 1 .. Len(r) : service'[r[i].name] = 0
      BY <1>1, <2>5, <3>1
    <3>5. Len(stk) = Depth(r) /\ Head(r).name \notin Range(stk)
      BY <2>5, <2>8, <2>9, <2>10
    <3> QED
      BY <2>7, <3>2, <3>3, <3>4, <3>5 DEF StackOf
  <2>13. frames'[t] = r /\ Top(t)' = f /\ At(t, {"pop", "store"})'
    BY <1>8, <2>1, <2>3, <2>5, <2>6 DEF IInv, ShapeInv, Top, At
  <2>14. OwnerInv'
    <3> SUFFICES ASSUME NEW i \in DOMAIN instances
                 PROVE  service[instances[i].name] = i
                        \/ \E u \in Thread : At(u, {"pop", "store"})' /\ Top(u)'.made = i
      BY <1>1 DEF OwnerInv
    <3>1. CASE \E u \in Thread : At(u, {"pop", "store"}) /\ Top(u).made = i
      <4>1. Top(t).made = i
        BY <1>3, <3>1 DEF At
      <4> QED
        BY <2>3, <2>13, <4>1
    <3> QED
      BY <3>1 DEF AloneInv, OwnerInv
  <2>15. RaisedInv'
    BY <1>1, <2>1 DEF AloneInv, RaisedInv, OnLoop, DependsOn
  <2> QED
    BY <1>1, <1>3, <2>5, <2>6, <2>7, <2>12, <2>14, <2>15, OneThread
<1> QED
  BY <1>7, <1>8

\* The service has its instance, and none of the calls below is for it.
LEMMA StoreAlone ==
  ASSUME IInv, AloneInv, NEW t \in Thread, Store(t)
  PROVE  AloneInv'
<1>1. /\ frames[t] # <<>> /\ error[t] = None /\ Top(t).step = "store"
      /\ service' = [service EXCEPT ![Top(t).name] = Top(t).made]
      /\ frames' = [frames EXCEPT ![t] = Returned(Tail(@), Top(t).made)]
      /\ UNCHANGED <<program, calls, error, instances, stack, finalizers, closeVars, raised, overlap>>
  BY DEF Store, At
<1>2. PICK fr \in Seq(Frame) : fr = frames[t]
  BY <1>1, AloneTop
<1>3. /\ \A u \in Thread : u # t => frames[u] = <<>>
      /\ StackOf(stack, service, fr) /\ stack \in Seq(Service) /\ fr # <<>>
      /\ Head(fr) = Top(t) /\ fr[1] = Top(t) /\ Len(fr) \in Nat \ {0} /\ Top(t) \in Frame
      /\ Tail(fr) # <<>> => Pushed(Head(Tail(fr)))
  BY <1>1, <1>2, AloneTop, TopCall DEF IInv
<1>4. PICK x \in Service : x = Top(t).name
  BY <1>3 DEF Frame
<1>5. PICK id \in Nat : id = Top(t).made /\ IsOf(instances, id, x)
  <2>1. UsedInv(program.params, instances, Top(t))
    BY <1>1, TopCall DEF IInv
  <2> QED
    BY <1>1, <1>3, <1>4, <2>1 DEF UsedInv, Frame
<1>6. PICK rest : rest = Tail(fr)
  OBVIOUS
<1>7. rest \in Seq(Frame) /\ StackOf(stack, service, rest)
  BY <1>1, <1>3, <1>6, TailOf DEF Pushed
<1>8. /\ StackInv(program.params, instances, rest)
      /\ rest # <<>> => IsAt(program.params, Head(rest), x) /\ program.params[Head(rest).name] \in Seq(Service)
  <2>1. StackInv(program.params, instances, fr)
    BY <1>2 DEF IInv, CallInv
  <2>2. rest # <<>> => program.params[Head(rest).name] \in Seq(Service)
    BY <1>7, StackTop, TemplateTypes DEF Frame, IInv
  <2> QED
    BY <1>3, <1>4, <1>6, <2>1, <2>2, TailStack
<1>9. PICK r : r = Returned(rest, id)
  OBVIOUS
<1>10. /\ r \in Seq(Frame) /\ Len(r) = Len(rest)
       /\ \A i \in 1 .. Len(rest) : r[i].name = rest[i].name
       /\ r # <<>> => rest # <<>> /\ Head(r).step = "params"
  BY <1>5, <1>7, <1>8, <1>9, ReturnStack
<1>11. StackOf(stack, service, r)
  BY <1>3, <1>6, <1>7, <1>10, SameNames DEF Pushed
<1>12. frames' = [frames EXCEPT ![t] = r]
  BY <1>1, <1>2, <1>5, <1>6, <1>9
\* The stack has the names of all calls below, and not that of the innermost.
<1>13. \A i \in 1 .. Len(r) : r[i].name # x
  <2> TAKE i \in 1 .. Len(r)
  <2>1. Len(stack) = Len(r) /\ Len(r) \in Nat
    BY <1>10, <1>11, LenProperties DEF StackOf, Depth, Pushed
  <2>2. PICK m : m = Len(r) + 1 - i
    OBVIOUS
  <2>3. m \in 1 .. Len(stack) /\ Len(r) + 1 - m = i
    BY <2>1, <2>2
  <2>4. stack[m] = r[i].name
    BY <1>11, <2>3 DEF StackOf
  <2>5. x \notin Range(stack)
    BY <1>1, <1>3, <1>4 DEF StackOf
  <2> QED
    BY <1>3, <2>3, <2>4, <2>5, LenProperties DEF Range
<1>14. \A y : y # x => service'[y] = service[y]
  BY <1>1, <1>4 DEF IInv, ShapeInv
<1>15. StackOf(stack', service', r)
  <2>1. \A i \in 1 .. Len(r) : service'[r[i].name] = 0
    BY <1>11, <1>13, <1>14 DEF StackOf
  <2> QED
    BY <1>1, <1>11, <2>1 DEF StackOf
<1>16. OwnerInv'
  <2> SUFFICES ASSUME NEW i \in DOMAIN instances
               PROVE  service'[instances[i].name] = i
    BY <1>1 DEF OwnerInv
  <2>1. service'[x] = id
    BY <1>1, <1>4, <1>5 DEF IInv, ShapeInv
  <2>2. CASE \E u \in Thread : At(u, {"pop", "store"}) /\ Top(u).made = i
    <3>1. i = id
      BY <1>3, <1>5, <2>2 DEF At
    <3> QED
      BY <1>5, <2>1, <3>1 DEF IsOf
  <2>3. CASE service[instances[i].name] = i
    <3>1. i # 0
      BY LenProperties DEF IInv, ShapeInv
    <3>2. service[x] = 0
      BY <1>3, <1>4 DEF StackOf
    <3> QED
      BY <1>14, <2>3, <3>1, <3>2
  <2> QED
    BY <2>2, <2>3 DEF AloneInv, OwnerInv
<1>17. RaisedInv'
  BY <1>1 DEF AloneInv, RaisedInv, OnLoop, DependsOn
<1> QED
  BY <1>1, <1>3, <1>10, <1>12, <1>15, <1>16, <1>17, OneThread

\* What is proved of one thread holds until a second one begins to make services.
LEMMA AloneStep ==
  ASSUME IInv, AInv, [Next]_vars
  PROVE  AInv'
<1> SUFFICES ASSUME ~overlap' PROVE AloneInv'
  BY DEF AInv
<1>1. ASSUME NEW t \in Thread, NEW s \in Service, Resolve(t, s)
      PROVE  AloneInv'
  <2>1. /\ frames[t] = <<>> /\ error[t] = None /\ LookUp(t, s)
        /\ UNCHANGED <<program, error, systemVars, raised>>
    BY <1>1 DEF Resolve
  <2>2. ~overlap
    BY <2>1 DEF LookUp
  <2> QED
    BY <2>1, <2>2, LookUpAlone DEF AInv
<1>2. ASSUME NEW t \in Thread, NextParam(t)
      PROVE  AloneInv'
  <2>1. /\ frames[t] # <<>> /\ error[t] = None /\ Top(t).step = "params"
        /\ Len(Top(t).used) < Len(Params(t))
        /\ LookUp(t, Params(t)[Len(Top(t).used) + 1])
        /\ UNCHANGED <<program, error, systemVars, raised>>
    BY <1>2 DEF NextParam, At
  <2>2. ~overlap
    BY <2>1 DEF LookUp
  <2>3. /\ Top(t).used \in Seq(Nat) /\ Params(t) \in Seq(Service) /\ Params(t) = program.params[Top(t).name]
    BY <2>1, TopCall DEF IInv
  <2>4. PICK s : s = Params(t)[Len(Top(t).used) + 1]
    OBVIOUS
  <2>5. s \in Service
    <3>1. Len(Top(t).used) + 1 \in 1 .. Len(Params(t))
      BY <2>1, <2>3, LenProperties
    <3> QED
      BY <2>3, <2>4, <3>1, ElementOfSeq
  <2>6. IsAt(program.params, Top(t), s)
    BY <2>1, <2>3, <2>4 DEF IsAt
  <2> QED
    BY <2>1, <2>2, <2>4, <2>5, <2>6, LookUpAlone DEF AInv
<1>3. ASSUME NEW t \in Thread, CheckLoop(t) \/ Push(t) \/ Make(t) \/ MakeFails(t) \/ Pop(t) \/ Store(t)
      PROVE  AloneInv'
  <2>1. ~overlap
    BY <1>3 DEF CheckLoop, Push, Make, Made, MakeFails, Pop, Store
  <2> QED
    BY <1>3, <2>1, CheckLoopAlone, PushAlone, MakeAlone, MakeFailsAlone, PopAlone, StoreAlone DEF AInv
<1>4. CASE Close \/ Finalize \/ UNCHANGED vars
  <2>1. UNCHANGED <<program, frames, error, instances, service, stack, raised, overlap>>
    BY <1>4 DEF Close, Finalize, vars, threadVars, systemVars
  <2>2. (OwnerInv' <=> OwnerInv) /\ (RaisedInv' <=> RaisedInv)
    BY <2>1 DEF OwnerInv, RaisedInv, OnLoop, DependsOn, At, Top
  <2>3. ASSUME NEW t \in Thread
        PROVE  StackOf(stack', service', frames'[t]) <=> StackOf(stack, service, frames[t])
    BY <2>1 DEF StackOf, Depth, DependsOn
  <2>4. ASSUME AloneInv
        PROVE  AloneInv'
    <3>1. OwnerInv' /\ RaisedInv'
      BY <2>2, <2>4 DEF AloneInv
    <3>2. frames' = frames /\ stack' = stack /\ program' = program
      BY <2>1
    <3> QED
      BY <2>3, <2>4, <3>1, <3>2, AloneStays
  <2> QED
    BY <2>1, <2>4 DEF AInv
<1> QED
  BY <1>1, <1>2, <1>3, <1>4 DEF Next, Step

\* With the indices of instances in their range, the types are those of TypeOK.
LEMMA Types == IInv => TypeOK
<1> SUFFICES ASSUME IInv PROVE TypeOK
  OBVIOUS
<1>1. ShapeInv /\ NameInv /\ CallInv /\ OrderInv /\ CloseInv
  BY DEF IInv
<1>2. Len(instances) \in Nat /\ DOMAIN instances = 1 .. Len(instances)
  BY <1>1, LenProperties DEF ShapeInv
<1> DEFINE FrameType == [name : Service, step : Steps, used : Seq(1 .. Len(instances)), made : 0 .. Len(instances)]
           InstanceType == [name : Service, uses : SUBSET (1 .. Len(instances)), late : BOOLEAN]
           Entry == [name : Service, id : 1 .. Len(instances)]
<1>3. frames \in [Thread -> Seq(FrameType)]
  <2> SUFFICES ASSUME NEW t \in Thread PROVE frames[t] \in Seq(FrameType)
    BY <1>1 DEF ShapeInv
  <2>1. /\ frames[t] \in Seq(Frame) /\ DOMAIN frames[t] = 1 .. Len(frames[t]) /\ Len(frames[t]) \in Nat
        /\ frames[t] \in [1 .. Len(frames[t]) -> Frame]
    BY <1>1, LenProperties DEF ShapeInv
  <2>2. ASSUME NEW i \in 1 .. Len(frames[t])
        PROVE  frames[t][i] \in FrameType
    <3>1. PICK f \in Frame : f = frames[t][i]
      BY <2>1
    <3>2. UsedInv(program.params, instances, f)
      BY <1>1, <2>1, <3>1 DEF CallInv, StackInv
    <3>3. /\ f.used \in Seq(Nat) /\ DOMAIN f.used = 1 .. Len(f.used) /\ Len(f.used) \in Nat
          /\ f.used \in [1 .. Len(f.used) -> Nat]
      BY LenProperties DEF Frame
    <3>4. \A n \in 1 .. Len(f.used) : f.used[n] \in 1 .. Len(instances)
      BY <1>2, <3>2, <3>3 DEF UsedInv, IsOf
    <3>5. f.used \in [1 .. Len(f.used) -> 1 .. Len(instances)]
      BY <3>3, <3>4
    <3>6. f.used \in Seq(1 .. Len(instances))
      <4>1. OnFirst(f.used, Len(f.used), 1 .. Len(instances))
        BY <3>3, <3>5 DEF OnFirst
      <4> QED
        BY <4>1, FirstIsSeq
    <3>7. f.made \in 0 .. Len(instances)
      BY <1>2, <3>2 DEF UsedInv, IsOf, Frame
    <3> QED
      BY <3>1, <3>6, <3>7 DEF Frame
  <2>3. frames[t] \in [1 .. Len(frames[t]) -> FrameType]
    BY <2>1, <2>2
  <2> QED
    <3> HIDE DEF FrameType
    <3>1. OnFirst(frames[t], Len(frames[t]), FrameType)
      BY <2>1, <2>3 DEF OnFirst
    <3> QED
      BY <3>1, FirstIsSeq
<1>4. instances \in Seq(InstanceType)
  <2>1. ASSUME NEW j \in 1 .. Len(instances)
        PROVE  instances[j] \in InstanceType
    <3>1. PICK inst \in Instance : inst = instances[j]
      BY <1>1, ElementOfSeq DEF ShapeInv
    <3>2. \A i \in inst.uses : i \in 1 .. Len(instances)
      BY <1>1, <1>2, <3>1 DEF NameInv, IsOf
    <3> QED
      BY <3>1, <3>2 DEF Instance
  <2>2. instances \in [1 .. Len(instances) -> InstanceType]
    BY <1>1, <1>2, <2>1, LenProperties DEF ShapeInv
  <2> QED
    <3> HIDE DEF InstanceType
    <3>1. OnFirst(instances, Len(instances), InstanceType)
      BY <1>2, <2>2 DEF OnFirst
    <3> QED
      BY <3>1, FirstIsSeq
<1>5. finalizers \in Seq(Entry)
  <2>1. Len(finalizers) \in Nat /\ DOMAIN finalizers = 1 .. Len(finalizers)
        /\ finalizers \in [1 .. Len(finalizers) -> [name : Service, id : Nat]]
    BY <1>1, LenProperties DEF ShapeInv
  <2>2. \A k \in 1 .. Len(finalizers) : finalizers[k].id \in 1 .. Len(instances)
    BY <1>1, <1>2, <2>1 DEF NameInv, IsOf
  <2>3. \A k \in 1 .. Len(finalizers) : finalizers[k] \in Entry
    BY <2>1, <2>2
  <2>4. finalizers \in [1 .. Len(finalizers) -> Entry]
    BY <2>1, <2>3
  <2> HIDE DEF Entry
  <2> QED
    <3>1. OnFirst(finalizers, Len(finalizers), Entry)
      BY <2>1, <2>4 DEF OnFirst
    <3> QED
      BY <3>1, FirstIsSeq
<1>6. service \in [Service -> 0 .. Len(instances)]
  <2>1. ASSUME NEW s \in Service
        PROVE  service[s] \in 0 .. Len(instances)
    BY <1>1, <1>2 DEF ShapeInv, NameInv, IsOf
  <2> QED
    BY <1>1, <2>1 DEF ShapeInv
<1> QED
  BY <1>1, <1>2, <1>3, <1>4, <1>5, <1>6 DEF TypeOK, ShapeInv, OrderInv, CloseInv

\* As long as services are made by one thread at a time, the loop check is right and a
\* service is made once; and the types hold for any threads.
THEOREM AloneIsSafeAlways == Spec => []AloneIsSafe
<1>1. Init => AInv
  <2> SUFFICES ASSUME Init PROVE AloneInv
    BY DEF AInv
  <2>1. OwnerInv
    BY EmptySeq DEF Init, OwnerInv
  <2>2. RaisedInv
    BY ServicesAssumption DEF Init, RaisedInv
  <2> QED
    BY <2>1, <2>2 DEF Init, AloneInv
<1>2. IInv /\ AInv /\ [Next]_vars => AInv'
  BY AloneStep
<1>3. IInv /\ AInv => AloneIsSafe
  <2> SUFFICES ASSUME IInv, ~overlap, AloneInv
               PROVE  /\ "loop" \in raised => \E s \in Service : OnLoop(s)
                      /\ "empty" \notin raised
                      /\ (\A t \in Thread : frames[t] = <<>>) => stack = <<>>
                      /\ \A i, j \in DOMAIN instances : instances[i].name = instances[j].name => i = j
    BY Types DEF AloneIsSafe, AInv
  <2>1. ASSUME NEW i \in DOMAIN instances, NEW j \in DOMAIN instances, instances[i].name = instances[j].name
        PROVE  service[instances[i].name] = i => i = j
    <3>1. CASE service[instances[i].name] = i /\ \E t \in Thread : At(t, {"pop", "store"}) /\ Top(t).made = j
      <4>1. PICK t \in Thread : At(t, {"pop", "store"}) /\ Top(t).made = j
        BY <3>1
      <4>2. frames[t] # <<>> /\ Top(t).made # 0
        BY <4>1, TopCall DEF At, UsedInv, IInv
      <4>3. Top(t).name = instances[j].name
        BY <4>1, <4>2, TopCall DEF UsedInv, IsOf, IInv
      <4>4. service[Top(t).name] = 0
        BY <4>2, AloneTop DEF StackOf
      <4>5. i # 0
        BY LenProperties DEF IInv, ShapeInv
      <4> QED
        BY <2>1, <3>1, <4>3, <4>4, <4>5
    <3> QED
      BY <2>1, <3>1 DEF AloneInv, OwnerInv
  <2>2. ASSUME NEW i \in DOMAIN instances, NEW j \in DOMAIN instances,
               NEW t \in Thread, At(t, {"pop", "store"}) /\ Top(t).made = i,
               NEW u \in Thread, At(u, {"pop", "store"}) /\ Top(u).made = j
        PROVE  i = j
    BY <2>2 DEF AloneInv, At
  <2>3. \A i, j \in DOMAIN instances : instances[i].name = instances[j].name => i = j
    BY <2>1, <2>2 DEF AloneInv, OwnerInv
  <2> QED
    BY <2>3 DEF AloneInv, RaisedInv
<1> QED
  BY Invariance, <1>1, <1>2, <1>3, PTL DEF Spec
=============================================================================
