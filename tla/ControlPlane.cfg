SPECIFICATION Spec
CONSTANTS
    World <- MCWorld
    Budgets <- MCBudgets
    Subs = {"ann", "bob", "cyd"}
    Names = {"helper"}
    Apps = {p1, p2}
    AppKey <- MCAppKey
    p1 = p1
    p2 = p2
INVARIANTS
    TenantIsolation
    UsersConverge
    OnlyMembersManageKeys
    RegisteredRunnerAnswers
CHECK_DEADLOCK FALSE
