------------------------------- MODULE Router -------------------------------
(***************************************************************************)
(* core/http_router.c: the tables the features fill at start, who may ask, *)
(* the hooks that run before a handler and the handler that is chosen, and *)
(* core/config.c's reading of the credentials.  A path is a sequence of    *)
(* letters, a line of config.ini a section or a key with its value.        *)
(***************************************************************************)
EXTENDS Integers, Sequences, SequencesExt, FiniteSetsExt

CONSTANTS
    IniFiles,      \* config.ini: lines [section] or [key, value]
    RouteSet,      \* routes features register: method, path, prefix
    PrefixSet,     \* paths features declare public
    RequestSet,    \* methods and paths clients ask for
    MaxRoutes,     \* HTTP_MAX_ROUTES
    MaxPublic      \* MAX_PUBLIC_PREFIXES

IniLine == [section : STRING] \cup [key : STRING, value : {"", "set"}]
Routes == [method : STRING, path : Seq(STRING), prefix : BOOLEAN]

ASSUME RouterAssumption ==
    /\ IniFiles \subseteq Seq(IniLine)
    /\ RouteSet \subseteq Routes

VARIABLES
    ini,        \* config.ini as it was at start
    config,     \* Config: the credentials, "" when not set
    routes,     \* g_routes
    public,     \* g_public_prefixes
    handled     \* the last request: who asked, whether the hooks ran, the outcome

routerVars == <<ini, config, routes, public, handled>>
Nothing == [outcome |-> "none"]

Credentials == {"token", "username", "password"}

(* The last value of a key in the section [server] counts; keys of other   *)
(* sections and before any section are passed over.                        *)
ConfigLine(c, line) ==
    IF "section" \in DOMAIN line THEN [c EXCEPT !.section = line.section]
    ELSE IF c.section = "server" /\ line.key \in Credentials
      THEN [c EXCEPT !.cfg[line.key] = line.value]
    ELSE c
NoConfig == [section |-> "", cfg |-> [k \in Credentials |-> ""]]
config_load(lines) ==
    LET load[i \in 0..Len(lines)] ==
            IF i = 0 THEN NoConfig ELSE ConfigLine(load[i - 1], lines[i])
    IN  load[Len(lines)].cfg

RouterInit ==
    /\ ini \in IniFiles
    /\ config = config_load(ini)
    /\ routes = <<>> /\ public = <<>>
    /\ handled = Nothing

(* A full table drops the entry.                                           *)
add_route(r) ==
    /\ handled = Nothing /\ ~Contains(routes, r)
    /\ routes' = IF Len(routes) >= MaxRoutes THEN routes ELSE Append(routes, r)
    /\ UNCHANGED <<ini, config, public, handled>>

http_server_add_public_prefix(p) ==
    /\ handled = Nothing /\ ~Contains(public, p)
    /\ public' = IF Len(public) >= MaxPublic THEN public ELSE Append(public, p)
    /\ UNCHANGED <<ini, config, routes, handled>>

config_basic_enabled == config.username # "" /\ config.password # ""
config_auth_enabled == config.token # "" \/ config_basic_enabled

path_is_public(req) ==
    req.method = "OPTIONS" \/ \E i \in DOMAIN public : IsPrefix(public[i], req.path)

(* What an Authorization header can hold; "empty" is a Bearer of nothing   *)
(* but spaces, "long" one that does not fit.                               *)
Headers == {"none", "basic right", "basic wrong", "empty", "long", "config token",
            "issued token", "unknown token"}

http_get_bearer(auth) == auth \in {"config token", "issued token", "unknown token"}

(* The configured token is only in clients' hands when there is one; not   *)
(* configured it is the empty string, and "empty" would equal it.          *)
TokenIs(auth) == IF config.token # "" THEN auth = "config token" ELSE auth = "empty"

(* Bug: Bearer tokens are compared whether or not one is configured, and   *)
(* an empty one is let through.                                            *)
authorized_any_token(auth) ==
    \/ config_basic_enabled /\ auth = "basic right"
    \/ /\ http_get_bearer(auth) \/ auth = "empty"
       /\ TokenIs(auth) \/ auth = "issued token"

authorized(auth) ==
    \/ config_basic_enabled /\ auth = "basic right"
    \/ /\ http_get_bearer(auth)
       /\ (config.token # "" /\ TokenIs(auth)) \/ auth = "issued token"

route_matches(r, path) == IF r.prefix THEN IsPrefix(r.path, path) ELSE r.path = path

Status(code) == [code |-> code, by |-> 0]

(* The first route of that method; a path known with another method is 405. *)
route(req) ==
    LET here == {i \in DOMAIN routes : route_matches(routes[i], req.path)}
        mine == {i \in here : routes[i].method = req.method}
    IN  IF req.method = "OPTIONS" THEN Status(204)
        ELSE IF mine # {} THEN [code |-> 200, by |-> Min(mine)]
        ELSE Status(IF here # {} THEN 405 ELSE 404)

http_server_dispatch(req, auth) ==
    /\ LET refused == config_auth_enabled /\ ~path_is_public(req) /\ ~authorized(auth)
       IN  handled' = [req |-> req, auth |-> auth, hooks |-> ~refused,
                       outcome |-> IF refused THEN Status(401) ELSE route(req)]
    /\ UNCHANGED <<ini, config, routes, public>>

RouterNext ==
    \/ \E r \in RouteSet : add_route(r)
    \/ \E p \in PrefixSet : http_server_add_public_prefix(p)
    \/ \E req \in RequestSet, auth \in Headers : http_server_dispatch(req, auth)

(* config.ini gives a credential: its last line in the section does.       *)
InServer(j) ==
    \E i \in 1..(j - 1) :
        /\ ini[i] = [section |-> "server"]
        /\ \A l \in (i + 1)..j : "section" \notin DOMAIN ini[l]
Given(k) ==
    \E j \in DOMAIN ini :
        /\ InServer(j) /\ ini[j] = [key |-> k, value |-> "set"]
        /\ \A l \in (j + 1)..Len(ini) : InServer(l) => ini[l] # [key |-> k, value |-> ""]

Basic == Given("username") /\ Given("password")
Known(auth) ==
    \/ auth = "issued token"
    \/ Given("token") /\ auth = "config token"
    \/ Basic /\ auth = "basic right"
Open == ~Given("token") /\ ~Basic
Fits(r, req) == r.path = req.path \/ (r.prefix /\ IsPrefix(r.path, req.path))

LetIn(h) == h.hooks <=> Known(h.auth) \/ Open \/ path_is_public(h.req)
Chosen(h) ==
    LET code == h.outcome.code
        by == h.outcome.by
    IN  /\ code = 401 <=> ~h.hooks
        /\ code = 200 => Fits(routes[by], h.req) /\ routes[by].method = h.req.method
        /\ h.hooks /\ h.req.method # "OPTIONS" =>
              \A i \in DOMAIN routes : Fits(routes[i], h.req) =>
                  /\ code # 404
                  /\ routes[i].method = h.req.method => code = 200 /\ by <= i

(* Whoever asks holds a credential that config.ini sets or was issued, or  *)
(* asks for a public path, or nothing is configured; only then do hooks    *)
(* and a handler run.  The handler is of the request's method and path and *)
(* was registered before every other that is, full tables and prefixes     *)
(* that overlap other routes included; 404 only when no route has the path.*)
DispatchRight == handled # Nothing => LetIn(handled) /\ Chosen(handled)
=============================================================================
