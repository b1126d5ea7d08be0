------------------------------ MODULE Services ------------------------------
(***************************************************************************)
(* The components that share no state with the shelves: each by itself,    *)
(* from all its initial states, while the others stand still.  Together    *)
(* they would have the product of their states and no behaviour that one   *)
(* of them does not have.                                                  *)
(***************************************************************************)
EXTENDS ReadingProgress, Members, Access, RateLimiter, Librarians, SoftDelete,
        DemoReset, Images, SearchCaches, SearchDeadline, Isbn, Genre, Report

VARIABLE part   \* the component that moves

PartsOfServices ==
  {"reading", "members", "access", "limiter", "librarians", "deletion", "demo", "images",
   "caches", "deadline", "isbn", "genre", "report"}

\* Components with many initial states have one of them while they stand still.
ServicesInit ==
  /\ part \in PartsOfServices
  /\ Init /\ (part # "reading" => book = Registered("PLANNED", 0, NoTotal, 0))
  /\ CascadeInit /\ (part # "deletion" => \A i \in Items : item[i] = "live")
  /\ DemoInit /\ (part # "demo" => shelved = CHOOSE rows \in FreshRows(Seeds) : TRUE)
  /\ DeadlineInit
  /\ part # "deadline" => lookup.asked = [given |-> "query", shape |-> "text", member |-> TRUE]
  /\ IsbnInit
  /\ part # "isbn" => /\ asked = CHOOSE b \in Bodies : TRUE
                      /\ foundBook = asked /\ printed = Isbn13(foundBook)
  /\ MemberInit /\ AccessInit /\ LimiterInit /\ LibInit /\ ImageInit /\ CacheInit
  /\ GenreInit /\ ReportInit

Moves(p, variables) == IF part = p THEN TRUE ELSE UNCHANGED variables

Others ==
  /\ UNCHANGED part
  /\ Moves("reading", vars) /\ Moves("members", memberVars) /\ Moves("access", accessVars)
  /\ Moves("limiter", limiterVars) /\ Moves("librarians", libVars)
  /\ Moves("deletion", cascadeVars) /\ Moves("demo", demoVars) /\ Moves("images", imageVars)
  /\ Moves("caches", cacheVars) /\ Moves("deadline", deadlineVars) /\ Moves("isbn", isbnVars)
  /\ Moves("genre", genreVars) /\ Moves("report", reportVars)

ServicesNext ==
  \/ part = "reading" /\ Next /\ Others
  \/ part = "members" /\ MemberNext /\ Others
  \/ part = "access" /\ AccessNext /\ Others
  \/ part = "limiter" /\ LimiterNext /\ Others
  \/ part = "librarians" /\ LibNext /\ Others
  \/ part = "deletion" /\ CascadeNext /\ Others
  \/ part = "demo" /\ DemoNext /\ Others
  \/ part = "images" /\ ImageNext /\ Others
  \/ part = "caches" /\ CacheNext /\ Others
  \/ part = "deadline" /\ DeadlineNext /\ Others
  \/ part = "isbn" /\ Mistake /\ Others
  \/ part = "genre" /\ GenreNext /\ Others
  \/ part = "report" /\ ReportNext /\ Others

servicesVars ==
  <<part, vars, memberVars, accessVars, limiterVars, libVars, cascadeVars, demoVars, imageVars,
    cacheVars, deadlineVars, isbnVars, genreVars, reportVars>>

ServicesSpec == ServicesInit /\ [][ServicesNext]_servicesVars

-----------------------------------------------------------------------------
\* Every component's variables have the types of the rows, tokens and answers they stand for.
ServicesTypeOK ==
  /\ MemberTypeOK /\ AccessTypeOK /\ LimiterTypeOK /\ LibTypeOK /\ CascadeTypeOK
  /\ DemoTypeOK /\ ImageTypeOK /\ CacheTypeOK /\ DeadlineTypeOK /\ IsbnTypeOK /\ GenreTypeOK
  /\ ReportTypeOK

=============================================================================
