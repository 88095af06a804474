CONSTANTS
    Calls <- MCCalls
    CallsOf <- MCCallsOf
    Busy = 2
    Ticket = {k1}
    None = none
    Entity <- MCEntity
    User <- MCUser
    Owner = "director"
    Handled = {"user"}
    Store = {"store"}
    RoleSets <- MCRoleSets
    Category <- MCCategory
    Unit <- MCUnit
    Policy <- MCPolicy
    Item <- MCItem
    Bouquet <- MCBouquet
    Seeded <- MCSeeded
    DefaultUnit = "piece"
    Supplier = {"grower"}
    PaymentMethod = {"card"}
    Customer <- MCCustomer
    Phone = {"n1", "n2"}
    Shop = {"s1", "s2"}
    Key = {"x", "y"}
    Goods = 2
    Week = {1, 2}
    Amount = {five, seven}
    Page = {"writer", "other"}
    Moves <- MCMoves
    Browser = {"desk", "tablet"}
    Tab = {"left", "right"}
    Session = {s1, s2}
    Turns = 2
    Passwords = 2
    AuthKey = {"k1", "k2"}
    Nothing = nothing
    Stale = stale
SPECIFICATION MCSpec
INVARIANTS
    TypesOK
    RequestsTellTheTruth
    StaffIsInOrder
    RecordsAreSound
    WhatIsTypedIsKept
    SessionsAreSound
    AdminPagesServe
SYMMETRY Alike
CHECK_DEADLOCK FALSE
