# Verification of the Nest auth service

TLA+ models of the authentication service in `src/`, TLC runs that check them on
small instances, and theorems that TLAPS checks for every value of the constants.
Line numbers below refer to `src/src/modules/auth/auth.service.ts` unless a file is named.

## The system

| Part | State it keeps | Operations | Interacts with |
|---|---|---|---|
| Sessions (`AuthService`, `RefreshToken`) | rows of `refresh_tokens`: user, family, revoked, expiry | register, login, refresh, logout, logoutAll, listSessions, revokeSession | users, access tokens, blacklist |
| Passwords (`AuthService`, `AuthToken`) | `users.passwordHash`, rows of `auth_tokens` | forgotPassword, resetPassword, changePassword | ends sessions through logoutAll |
| Access tokens (`TokenService`, `JwtStrategy`, `JwtAuthGuard`) | nothing; the token carries its claims | sign, verify, validate | Redis blacklist, roles, every bearer route |
| Blacklist (`RedisService`) | keys `blacklist:<jti>` with a lifetime; what Redis saved of them | blacklistToken, isTokenBlacklisted | logout writes it, the guard reads it |
| Accounts (`UsersService`) | `users`, `user_roles`, avatar files | create, update, updateAvatar, assignRoles, updatePassword | roles, sessions |
| Rbac (`RolesService`, `PermissionsService`, guards) | `roles`, `permissions`, `role_permissions` | create, remove, setPermissions, flatten, canActivate | claims of access tokens |
| Seed, migration | the same tables | one script | accounts, roles |
| Rate limiting (`ThrottlerGuard`) | counters in Redis | one check per request | every route |
| Cognito | none of its own | calls to AWS | - |

What is hard. Every handler is a sequence of awaited statements and none runs in a
transaction. Whatever a handler has read is stale at its next statement, two
requests of one client overlap freely (a browser with two tabs refreshes twice),
and a statement that throws leaves the earlier ones done. No lock, version
column or conditional UPDATE protects the read-check-write sequences of
refresh, resetPassword, changePassword, `UsersService` and `RolesService`. Time
matters in three places: expiry of rows, `exp` of the JWT in whole seconds, and the
lifetime of a blacklist entry. Rights are copied into the access token and never
looked up again, and the blacklist lives in a Redis that may restart from an older snapshot.

What makes each part correct:

- Sessions: a rotated token is revoked before its successor exists; a family stays
  with the account that opened it; nobody ends another user's session; a
  family that has ended stays ended; revoking a session ends the login it stands for.
- Passwords: changing a password ends the sessions opened with the old one; a used
  reset token is not used again.
- Access tokens: after logout has answered, the token is refused until it expires; a right taken away
  leaves every token within one lifetime.
- Accounts: an edit changes only what it names, and the avatar a row names is a file that exists.
- Rbac: role names stay unique, a full replacement leaves the set asked for, and a removed role stays removed.

## Modules

| Module | What it is |
|---|---|
| `Tables` | a table as a function on the keys in use; INSERT |
| `AuthService` | sessions and passwords, one action per statement |
| `SessionFamilies` | the abstract promise about sessions, implemented by `AuthService` |
| `AccessTokens` | lifetime of access tokens and blacklist entries, with a clock and a Redis that restarts |
| `Claims` | roles and permissions in the access token and the guards that read them; extends `AccessTokens` |
| `EntitySave` | what TypeORM's `save` writes, given the entity, what its SELECT found and what is stored |
| `Accounts` | `UsersService`, the avatar files and the seed, over `EntitySave` |
| `Rbac` | `RolesService` and `PermissionsService`, over `EntitySave` |
| `MCAuthService`, `MCAccessTokens`, `MCClaims`, `MCAccounts`, `MCRbac` | the sets of endpoints and the symmetry of the runs |
| `AuthServiceProofs`, `SessionProofs`, `SessionFamiliesProofs`, `AccessTokensProofs`, `ClaimsProofs`, `AccountsProofs`, `RbacProofs` | theorems and their proofs |

### AuthService

`users`, `refreshTokens`, `authTokens` and `blacklist` are the tables and the Redis
keys. `req` holds the requests in flight: each slot is the handler's local variables and
`at`, the statement it executes next. An action executes that statement and all the code up to
the next await, so any other request may run in between; `Fail` ends a request at
any statement (a thrown database or Redis error, a crash of the process), leaving
what it has written. The table of steps:

| Handler | Actions | Values of `at` |
|---|---|---|
| register 41-45, `UsersService.create` | `Register`, `RegisterSave` or `RegisterConflict`, `Issue` | `register.save`, `issue` |
| validateCredentials and login 47-59 | `Login`, `Issue` | `issue` |
| refresh 66-89 | `Refresh`, `RefreshRevoke`, `Issue`; or `RefreshReplay`, `RevokeFamily` | `refresh.revoke`, `issue`; `refresh.reuse` |
| logout 91-98 | `Logout`, `LogoutRevoke`, `LogoutBlacklist` | `logout.revoke`, `logout.blacklist` |
| logoutAll 100-103 | `LogoutAll`, `RevokeAll` | `logoutAll` |
| forgotPassword 105-127 | `ForgotPassword` | - |
| resetPassword 129-143 | `ResetPassword`, `ResetUpdate`, `ResetUsed`, `RevokeAll` | `reset.password`, `reset.used`, `logoutAll` |
| changePassword 150-161 | `ChangePassword`, `ChangeVerify`, `ChangeUpdate`, `RevokeAll` | `change.find`, `change.password`, `logoutAll` |
| revokeSession 180-187 | `RevokeSession`, `SessionFind`, `SessionRevoke` | `session.find`, `session.revoke` |
| listSessions 163-178 | the operator `ListedSessions` | - |

Abstractions, and why they are safe:

- The raw token, its hash, its row id and the jti signed with it are one `TokenId`: they are
  drawn together from spaces too large to collide, and nothing orders them.
- A stored hash is the password it verifies. Passwords are compared, never looked into.
- A row's expiry is a Boolean that `Expire` sets at any time. The millisecond
  at which `<` and `MoreThan` differ is not modelled.
- Access tokens do not expire in this module (they do in `AccessTokens`); bearer requests
  can thus come later than they may in the code, which only adds behaviours.
- Requests that are refused at their first check change nothing and are not actions.
- Two reads without a write between them that cannot affect each other are one step
  (the row and the user of refresh, the look-up and INSERT of forgotPassword).
- `isActive` is left out: no code writes it.

Five history variables record what the properties speak of and no guard but the freshness of
families reads: `rotations`, `opened`, `purged`, `redeemed` and `excused`. `purged` holds the families that
reuse detection has ended while nothing of them was in flight (`Purge`); `redeemed` counts how often a reset token has
been marked used. `excused` needs care. `Settle` computes it when the last request that owes a user a logoutAll ends.
If it ends by executing it, the families that escape are those with a login or a
refresh in flight at that moment; if it fails, also those still live. Only families opened with
another password than the stored one are recorded, and the earlier excuses of the user are dropped.

### SessionFamilies

A family is unused, open or closed and has one holder. `Open` takes an unused one; `Close` closes any number
of open families of one user, and closed is final. In `AuthService`, a family
is open while it has a usable row or a request about to add one
(`Live` and `InFlight`). `RefinesSessionFamilies` says that every step is a step of this
machine or a stutter. It is what survives of "the entire family is revoked": a family may outlive
reuse detection by a refresh in flight, but once nothing is usable and nothing in flight no token
brings it back.

### AccessTokens

`now` counts half seconds so that signing and SET can fall inside a second. `exp` is the JWT claim
(floor of the instant of signing plus the lifetime), `redis` the instant a
key's EX is up. A request passes the expiry check (`CanActivate`), asks Redis (`Validate`), and is admitted;
if it is a logout it goes on to `BlacklistToken`. The clock may advance between any two steps.

Redis may save its keys (`Snapshot`) and restart from what it saved last (`RedisRestart`): `docker-compose.yml` gives it a
volume and no append-only file. `forgotten` is a history: the logged-out tokens whose entry a restart has lost.
The properties of this module excuse those and no others, so an entry that was saved must still refuse its token after a restart.

### Claims

One account's rights: `grants` gives each role its permissions, `held` is the account's roles. A login, registration or
refresh loads the user (`Load`), awaits argon2 or the database, and signs what it loaded (`Sign`, which is
`SignAccessToken` of `AccessTokens` with claims) or does not get there (`Abandon`). `AssignRoles`, `SetPermissions`, `CreateRole` and
`RemoveRole` may run at any time; how they come about, statement by statement, is the subject of `Accounts` and `Rbac`,
and here each is one step with any outcome. A bearer request passes `CanActivate` and `Validate` and then both guards,
which read the claims and nothing else: `Reach` and `Forbid`, for every route, that is, for every
set of roles and permissions a decorator may name. `RolesGuard` asks for one of the roles, `PermissionsGuard` for all permissions.

History: `fading` counts for each right the half seconds left until no token may say it, restarted when the right is taken away
(`TakeAway`); `lost` holds the rights that went between a load and its signature. The second kind cannot
be bounded from the moment of the change, because nothing bounds the time from load to signature. `StaleRightsFade` says that
a token's other rights are those of the tables or still fading; `RoutesAskForRecentRights` that every request that passes
both guards has what the route asks for, in that sense. Logouts only refuse more requests and are left to `AccessTokens`.

### EntitySave, Accounts and Rbac

`repository.save(entity)` is the operation that makes these two parts hard. It SELECTs the row and its
junction rows, compares them with the entity the handler loaded earlier, and writes every difference in a
transaction. A column is written if the entity differs from what the SELECT read (`WrittenColumn`); junction
rows the entity has and the SELECT lacked are inserted, those it found and the entity lacks are deleted
(`WrittenRelation`); an INSERT of a junction row fails if the row is there already or refers to nothing (`Insertable`).
These operators stand for TypeORM, which is outside the repository.

A request is again a slot of `req`. In `Accounts`:

| Handler (`users.service.ts`) | Actions | Values of `at` |
|---|---|---|
| create 22-36 | `Create`, `CreateSave` | `create.save` |
| update 85-89, assignRoles 39-49, updateAvatar 51-69 | `Update`, `AssignRoles` or `UpdateAvatar`; `SaveLoad`; `SaveWrite` or `SaveRefused` | `save.load`, `save.write` |
| the clean-up of 59-69, which nobody awaits | `Unlink` | `unlink` |
| updatePassword 95-97 | `UpdatePassword` | - |
| `seed.ts` | `Seed`, `SeedUser`, `SeedRole` | `seed.user`, `seed.role` |
| RolesService, as far as `users` and `user_roles` see it | `RemoveRole`, `AddRole` | - |

In `Rbac` (`roles.service.ts`, `permissions.service.ts`): `CreatePermission`, `PermissionSave`; `Create`, `CreateSave` or
`CreateRefused`; `Remove`, `RoleRemove`; `SetPermissions`, `SaveLoad`, then `SaveWrite`, `SaveInsert` or `SaveRefused`. `SaveInsert` is
what `save` does with an entity whose row its SELECT no longer finds: an INSERT with the id the entity has.

Abstractions:

- The two SELECTs of a `save` (row, junction ids) are one step, as are a handler's load and its look-up of
  names: in both, a change between the two reads gives what the same change before or after them gives,
  except that the pair may mix two states of different tables; nothing compares them.
- `Accounts` knows a role by its id. Names and permissions are `Rbac`'s.
- `firstName` stands for the columns a profile edit may set.
- `RemoveRole` and `AddRole` are whole requests, because the tables of `Accounts` change only at their one statement.
- `CreateRefused` is also taken when the ids of the instance are used up (`RoleId = drawn`), the one guard here that bounds the instance.
- A failing `unlink` is swallowed by the code and is the same as `Fail` at `unlink`.

History: `disturbed` holds the saves in flight whose row another request has written since the handler loaded it;
`rewound` the users whose avatar a save of another column has written back. In `Rbac`, `overlapping` gives each
replacement in flight what the replacements it has overlapped ask for, as long as nothing but replacements
has written its role. No guard reads any of them.

## Runs

| Run | Instance | Shows |
|---|---|---|
| `rotation` | 1 user, 4 tokens, 2 families, 2 requests, failures | `RotatedIsRevoked`, `ForksNeedARace`, `TwoSessionsNeedAFork`, `TypeOK` |
| `owners` | 2 users who first register, 3 tokens, 2 families, 2 requests, failures | `FamilyHasOneOwner`, `RevokedOnlyForOwner`, `EndedButForThoseInFlight`, `RevokedSessionEnds`, `PurgedFamilyStaysDead`, `RefinesSessionFamilies` |
| `passwords` | 1 user, 2 passwords, 3 tokens, 2 families, 1 reset token, 2 requests, failures | `StaleSessionsAreExcused`, `SpentResetStaysSpent`, `ResetsNeedARace` |
| `liveness` | 2 tokens, 1 family, 1 reset token, 2 requests, fairness | `OutdatedSessionsEnd` |
| `access_tokens` | 2 tokens, 2 requests, lifetimes of 2 s, clock to 4.5 s, failures, restarts of Redis | `LoggedOutIsBlacklisted`, `LateRequestsAreRefused`, `TypeOK` |
| `claims` | 1 token, 1 request, 1 login in flight, 2 roles, 1 permission, lifetime of 1 s, clock to 1.5 s | `StaleRightsFade`, `RoutesAskForRecentRights`, `ClaimsTypeOK` |
| `accounts` | 1 user, 2 names, 3 files, 2 roles, 2 requests, failures | `UndisturbedSavesAreExact`, `AvatarExists`, `ColumnsChangeOnPurpose`, `TypeOK` |
| `rbac` | 3 role ids, 2 names, 2 permissions, 2 requests, failures | `NamesAreUnique`, `UndisturbedReplacementsAreExact`, `AgreedPermissionsAreExact`, `ReturnsNeedARace`, `TypeOK` |
| `forked_session` | two overlapping refreshes | two rows where a comment says "one row per refresh-token family" |
| `reused_reset` | two overlapping resets with one token | a token already marked used changes the password |
| `stale_profile` | two overlapping requests, 2 passwords | a profile edit undoes a password change |
| `long_access_tokens` | access tokens of 3 s, entries of 2 s | a logged-out token is accepted again |

Bounds. `RoomForAToken` and `RoomForAFamily` keep a request from starting when the ids
of the instance would run out under it; they stand for the unbounded supply of random ids and are
the only guards that are not in the code. When the ids are used up and every session has expired, an instance
has nothing left to do: the runs therefore do not check deadlock (in `AccessTokens` the clock stops at `Horizon`).
Two requests in flight are enough for every race of the code, each of which needs one
stale read and one step in between; four tokens let a root be exchanged three times, which is what
`ForksNeedARace` forbids to two requests; two families and two users are enough to confuse
them. Two passwords give old and new, and a change back. Two-second lifetimes at half-second resolution
contain every phase of signing and SET against the seconds. In `claims` one token suffices because tokens share
nothing but the tables, and the clock runs half a second past the token's expiry, when the last right taken away at its issue has faded;
two roles that may share one permission distinguish losing a role from losing its permission. Three files let two overlapping uploads
both find the same older one. One account is enough for `Accounts`, whose requests touch one row each but for `RemoveRole`;
one password is enough there because `stale_profile` has two, and because `save` treats the plain columns alike and there are two names.
Three tokens give `owners` a login that is refreshed or forked and a second login; a logout names an access token and a refresh token, which would multiply the states of `rotation`. A third role id in `Rbac` is one to create
after both of the migration's are gone. The ids of `Rbac` and the roles of `Accounts` are named by the
initial state and are not symmetric.

`passwords` identifies states that agree in everything but `rotations` and `purged` (`VIEW SessionsView`):
no guard and no property of that run reads them. With two requests `ResetsNeedARace` allows a token two redemptions; the
run has room for a third.

Symmetry is used by the safety runs only: ids, users, passwords and requests are unordered model values, and the properties
quantify over all of them. `liveness` does without.

Fairness. `FairSpec` asks weak fairness of `Proceed(r)` for each slot: the event loop resumes a handler
whose statement has returned, and the drivers answer or throw. Nothing is assumed of clients, of time or of
`Fail`. `liveness` sets `MayFail = FALSE`, since a failed logoutAll is not retried by the
service: the sessions it leaves are what `StaleSessionsAreExcused` accounts for.

## What the violations say

- `forked_session`: the UPDATE of line 87 is by id alone. Adding `revoked: false` to it and
  issuing only if a row was affected would make the check and the write one.
- `reused_reset`: `used` is read at 131 and written at 141, and the UPDATE of the password in between (140) does not
  look at it again. The test at `auth.service.spec.ts` 197 says "rejects an expired or already-used token" of a token used before the
  request begins; of one used while the request runs it is not true. An UPDATE `WHERE used = false` that comes before the password's and must
  affect a row would close it. `ResetsNeedARace` says how far it goes: two requests, two redemptions.
- `stale_profile`: `update` (`users.service.ts` 88) saves every column it loaded. `usersRepository.update(id, dto)` would write
  only the ones named.
- `long_access_tokens`: `auth.controller.ts` 62 passes a literal where the comment above it names the configured lifetime.

The same two mechanisms make more of the code's words untrue under overlap; the runs above account
for what still holds instead. A refresh in flight outlives "the entire token family is revoked" (62), and a login in flight
"every session ... is revoked afterwards" (147): `EndedButForThoseInFlight`, `PurgedFamilyStaysDead`, `RefinesSessionFamilies` and `StaleSessionsAreExcused`
say how far. Two overlapping `assignRoles` or `setPermissions` mix their sets, both called "full
replacement": `UndisturbedSavesAreExact` and `UndisturbedReplacementsAreExact` say what holds without overlap, `AgreedPermissionsAreExact`
that overlapping replacements mix only what they disagree about. `setPermissions` can bring a deleted role back:
`ReturnsNeedARace`. Two overlapping uploads leave one file behind that no row names. A seed that dies before its second INSERT leaves
an admin without a role, and every later seed skips it. And without any race, reuse detection says "All sessions
revoked." (77) and revokes one family.

## Proofs

TLAPS proves these for every value of the constants: any number of users, ids, passwords and
overlapping requests, with or without failures. They rest on the modules' named assumptions only:
unset values are not ids or records (`NoneAssumption`, `UnsetAssumption`, `IssuerAssumption`), `Registered` is a set of users, `Request` finite and `MayFail` a Boolean
(`AuthService`), the lifetimes are numbers (`AccessTokens`), the default and admin role and the seed's account are a role, a role and a user
(`RolesAssumption`, `SeedAssumption` of `Accounts`), and the migration's rows are well formed with distinct names
(`SeededAssumption` of `Rbac`).

| Theorem | Says | Argument |
|---|---|---|
| `TypeCorrect` | `AuthService` keeps `TypeOK` | `Typed` adds `Prepared`: which locals a handler has set when it reaches a statement |
| `Rotation` | `RotatedIsRevoked` always | `RotationInv` adds `Rotating`: a request about to revoke or issue holds an issued token of the family it will issue for, already revoked at `issue`; rows never lose `revoked` or change family (`RowsStep`) |
| `Ownership` | `FamilyHasOneOwner` always | `OwnerInv`: rows keep user and family, `opened` only grows, a new family is fresh (`FamilyOpened`) |
| `OwnersOnly` | `RevokedOnlyForOwner` | `EntitledInv` adds to `OwnerInv` that a request about to revoke a row or a family acts for its owner (`Entitled`); then each WHERE clause is read once (`OwnersRevoke`) |
| `SpentResets` | `SpentResetStaysSpent` | `used` is never taken back (`ResetRowsStep`); only a look-up that demands an unused token makes a request hold one (`HeldReset`) |
| `StaleSessions` | `StaleSessionsAreExcused` always | `StaleAccounted` says it of families, live or in flight, so that it covers a session before its row exists; sessions come only from sessions or from a login (`LiveStep`), a password changes only into a state that owes a logoutAll (`PasswordStep`), and whoever ends the debt accounts for what escapes (`SettleStep`) |
| `Forks` | `ForksNeedARace` always | an exchanged token is revoked, so its exchanges can only be completed: each INSERT moves one from under way to made (`UnderWayStep`, `IssueCompletes`) |
| `Refinement` | `AuthService` implements `SessionFamilies` | `FamilyInv`; a family is open after a step only if it was before or was opened by it (`ActiveStep`), one step opens at most one (`OpensOne`) and ends rows and requests of one user (`EndsForOne`) |
| `LoggedOutTokens` | `LoggedOutIsBlacklisted`, if `AccessTtl <= BlacklistTtl` and `0 < BlacklistTtl` | `IInv`: an entry's end is not before the token's `exp`, for every phase of the half seconds (`FloorOfSeconds`) |
| `LateRequests` | `LateRequestsAreRefused`, likewise | the same invariant, with what a request past the expiry check knows |
| `TokensTypeCorrect` | `AccessTokens` keeps `TypeOK` | part of `IInv` |
| `ClaimsTypeCorrect` | `Claims` keeps `ClaimsTypeOK` | claims are signed with the token and roles are deleted with the rows that hold them |
| `StaleRights` | `StaleRightsFade` always | the bound compares `fading` with the token's `exp`, so it holds to the half second; with what a login in flight has loaded (`LoadedSinceThen`) and `TypeOK` it is inductive |
| `RecentRights` | `RoutesAskForRecentRights` | the same invariant, at the step that passes both guards |
| `AccountsTypeCorrect` | `Accounts` keeps `TypeOK`, foreign keys of `user_roles` included | `Prepared` as in `AuthService`, and `Referenced`: the roles a row names exist |
| `ExactSaves` | `UndisturbedSavesAreExact` always | `Undisturbed`: while nobody else writes the row, the entity is the stored row but for its own column and what `save` read is what is stored (`LeftAlone`, `BeginsToSave`) |
| `AvatarsExist` | `AvatarExists` always | `FilesInv`: two accounts never name or hold one file (`FilesAreOwned`), an upload under way holds a file nobody else names (`NewFilesAreNew`), an `unlink` under way holds one no row names unless it was rewound (`OldFilesAreOld`) |
| `RolesTypeCorrect` | `Rbac` keeps `TypeOK`, foreign keys included | `Prepared`, as above |
| `UniqueNames` | `NamesAreUnique` always | only INSERTs give names, and both kinds pass the index |
| `ExactReplacements` | `UndisturbedReplacementsAreExact` always | `Undisturbed`: while nobody else writes the role, it is there and what `save` read is what is stored (`RequestEnds`: every write marks the saves it invalidates) |
| `ReturnedRoles` | `ReturnsNeedARace` | the same invariant: a save that inserts is a disturbed one |

The deeper results on sessions and requests build on these. None assumes anything of how requests interleave.

| Theorem | Says | Argument |
|---|---|---|
| `OneSession` | `TwoSessionsNeedAFork` always | `SessionInv`: the rows of a family are a tree of rotations, all reached from the login's (`Rooted`), and a login in flight has a family without rows (`FreshLogin`). Being reached is said without recursion: a set with the root, closed under rotation, is everything. Without a fork no row has two successors, so one row has none (`OneLeaf`), and a row that is not revoked has none |
| `RevokedSessions` | `RevokedSessionEnds` | the row revoked is that one row (`NewestRevoked`), and a refresh in flight would hold another, or be a second exchange |
| `ClosedForGood` | a closed family stays closed | `ActiveStep` of the refinement |
| `EndsAllButInFlight` | `EndedButForThoseInFlight` | a family's rows are all its owner's, so each of the two UPDATEs reaches all of them; nothing that is not in flight gets there by it |
| `ForeignKeys`, `PasswordHolders` | requests work on accounts that exist; a password is changed by its account's own request | `Referenced`: what a handler has read of users and reset tokens is not taken back |
| `HandlersEnd` | each statement leaves a handler fewer (`EachStatementIsProgress`) | `StatementsLeft` counts them |
| `OutdatedEnd` | the safety half of `OutdatedSessionsEnd`: an outdated session has a request that owes it a logoutAll (`OutdatedAreOwed`) and owes it until it executes it or fails (`OwedUntilSettled`) | `ExcusedInv`, `OwingStep` |
| `PurgedForGood` | `PurgedFamilyStaysDead` always | `PurgedDead`: whoever could still issue for the family was in flight when it was ended, and then it does not count; a refresh needs a row that is not revoked, and a login draws a new family |
| `ResetRaces` | `ResetsNeedARace` always | a redeemed token is marked used (`RedeemedIsUsed`), so nobody sets out to redeem it again (`RedeemingStep`); the first redemption leaves at most the other requests on their way, each later one a request fewer (`RaceStep`) |
| `AgreedReplacements` | `AgreedPermissionsAreExact` | `Agreeing`: while only replacements write the role, what a save has read, what is stored and what the overlapping replacements ask for agree wherever the property asks them to; kept by the begin, the SELECT and the write of every replacement (`BeginAgrees`, `LoadAgrees`, `WriteAgrees`) |
| `PurposefulWrites` | `ColumnsChangeOnPurpose` | `ExactSaves` at the step that writes |

Every safety property a passing run checks is proved. Left to TLC: `OutdatedSessionsEnd`, whose leads-to under weak fairness and `ENABLED` the provers
cannot do (`HandlersEnd` and `OutdatedEnd` are the steps it is made of), and the violations.

## Not modelled

- Rate limiting. The window and its counters are kept by `@nestjs/throttler` and its Redis storage; the
  repository passes two numbers (`app.module.ts` 43). A model would be one of the libraries.
- Cognito. Each operation is one call of AWS and its answer passed on, without state here and without
  meeting the rest. `cognito.enabled` is read by no code, so the routes are live whatever it says, although
  `cognito.service.ts` 14 calls them disabled by default; that is a fact of the wiring and not of any run.
- Bootstrap, configuration, DTO validation, the error filter's formatting, Swagger, hashing and
  signing themselves, and the email that carries a reset token: no state, or outside the service.
- `isActive` and `markEmailVerified`: nothing writes the one or calls the other. The user cache is deleted but never filled.
- The status codes of refusals: a refused request changes nothing.

## Plan

Done: `AuthService`, `SessionFamilies`, `AccessTokens` with restarts, `Claims`, `EntitySave`, `Accounts`, `Rbac`, and the proofs above. What is left is
a composition of `Accounts` and `AuthService`, that is, the password column written back by `save` and what that does to sessions and to a
spent reset token. The product of the two state spaces is beyond the small instances that make either one interesting;
`stale_profile` shows the step itself in `Accounts`. What the two need of each other is stated and proved on each side: `AuthService` changes a password only
in a request of its account (`PasswordHolders`), and `Accounts` writes that column otherwise only in a save that another
request has disturbed (`PurposefulWrites`). Together they say where a composition could show something new: after such a save, and not before.

Each new question joins a run of its module where the instance allows, so that the runs stay few.
