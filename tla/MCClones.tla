------------------------------ MODULE MCClones ------------------------------
(* Procedures that between them use every statement the clones are made of. *)
EXTENDS Clones

formal(x) == Decl("formal", x, None)
local(x)  == Decl("", x, None)
Set(x, e) == Binop("=", Id(x), e)
F(formals, stmts) == Proc("int", "f", formals, Block(stmts))

(* examples/fib.cilk. *)
Fib == F(<<formal("n")>>,
         <<IfElse(Id("n"), Return(Id("n")),
             Block(<<local("x"), local("y"),
                     Spawn(Id("x"), "=", <<Id("n")>>),
                     Spawn(Id("y"), "=", <<Id("n")>>),
                     Sync, Return(Binop("+", Id("x"), Id("y")))>>))>>)

(* A loop that spawns and adds, as the manual's fib with implicit inlets.  *)
(* m is dead in the loop, and has the bit that s has in the chunk before.  *)
Loop == F(<<formal("n"), formal("m")>>,
          <<local("i"), Decl("", "s", Id("m")),
            For(Set("i", Const), Binop("<", Id("i"), Id("n")), Unary("++", Id("i")),
                Spawn(Id("s"), "+=", <<Id("i")>>)),
            Sync, Return(Id("s"))>>)

(* An inlet that works on a variable of its procedure and may abort, as in *)
(* the manual, under a test of SYNCHED.                                    *)
Inlets == F(<<formal("n")>>,
            <<Decl("", "best", Const),
              Proc("inlet", "catch", <<formal("r")>>,
                   Block(<<If(Binop("<", Id("best"), Id("r")),
                              Block(<<Set("best", Id("r")), Abort>>))>>)),
              While(Unary("--", Id("n")),
                    Block(<<InletCall("catch", <<Spawn(None, "", <<Id("n")>>)>>),
                            If(Unary("!", Synched), Continue)>>)),
              Sync, Return(Id("best"))>>)

(* A switch whose cases spawn and fall through, and a return that needs a  *)
(* sync of its own.                                                        *)
Cases == F(<<formal("n"), formal("m")>>,
           <<local("x"), Set("x", Id("m")),
             Switch(Id("n"),
                    Block(<<Case, Spawn(Id("x"), "=", <<Id("m")>>),
                            Case, Unary("++", Id("m")), Break,
                            Default, Spawn(None, "", <<Unary("++", Id("m"))>>),
                                     Return(Id("m"))>>)),
             Sync, Return(Binop("+", Id("x"), Id("m")))>>)

(* A do loop left by break and goto, three variables, no return at the end. *)
Jumps == Proc("void", "f", <<formal("n"), formal("k")>>,
           Block(<<local("i"), Set("i", Const),
             Do(Block(<<If(Binop("&&", Id("i"), Id("n")), Break),
                        IfElse(Id("n"), Spawn(None, "", <<Id("i")>>), Continue),
                        If(Unary("--", Id("k")), Goto("again"))>>),
                Unary("++", Id("i"))),
             Sync,
             Label("again"), Unary("--", Id("n")),
             If(Id("n"), Return(None)),
             Spawn(None, "", <<Id("n"), Id("i")>>)>>))

(* Variables of the frame only: an array and one whose address is taken;   *)
(* the comma and conditional expressions, an endless loop.                 *)
Frames == F(<<formal("p")>>,
            <<Decl("array", "a", None), Decl("static", "z", Const),
              local("q"), Set("q", Id("p")),
              Call(<<Unary("&", Id("q"))>>),
              Spawn(Id("q"), "=", <<Id("a")>>),
              Comma(<<Ternary(Id("p"), Unary("--", Id("p")), Const), Id("z")>>),
              For(None, None, None,
                  Block(<<Spawn(None, "", <<Id("p")>>),
                          If(Unary("sizeof", Id("p")), Break)>>)),
              Sync,
              Return(Binop("||", Id("q"), Id("p")))>>)

AllPrograms == {Fib, Loop, Inlets, Cases, Jumps, Frames}

(* x is saved at the first spawn, and x++ is done before the second. *)
InletArgs == {F(<<>>,
                <<Decl("", "x", Const), Decl("", "best", Const),
                  Proc("inlet", "catch", <<formal("r"), formal("y")>>,
                       Block(<<Set("best", Binop("+", Id("r"), Id("y")))>>)),
                  Spawn(None, "", <<>>),
                  InletCall("catch", <<Spawn(None, "", <<>>), Unary("++", Id("x"))>>),
                  Sync, Return(Binop("+", Id("x"), Id("best")))>>)}

(* After the inlet call x is only of use to the inlet, which the analysis  *)
(* of live variables knows at the call but not after it.                   *)
InletReads == {F(<<>>,
                <<Decl("", "x", Const), Decl("", "best", Const),
                  Proc("inlet", "catch", <<formal("r")>>,
                       Block(<<Set("best", Binop("+", Id("r"), Id("x")))>>)),
                  InletCall("catch", <<Spawn(None, "", <<>>)>>),
                  Unary("++", Id("x")),
                  Sync, Return(Id("best"))>>)}

(* Two gotos to one label, before and after it. *)
LabelGotos == {F(<<formal("n"), formal("k")>>,
                 <<If(Id("n"), Goto("again")),
                   Unary("++", Id("k")),
                   Label("again"),
                   Spawn(None, "", <<Id("k")>>),
                   If(Unary("--", Id("n")), Goto("again")),
                   Sync, Return(Const)>>)}
=============================================================================
