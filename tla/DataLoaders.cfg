\* Requests one after the other while products are written.
SPECIFICATION Spec
CONSTANTS
    o1 = o1
    o2 = o2
    o3 = o3
    i1 = i1
    i2 = i2
    i3 = i3
    milk = milk
    tea = tea
    OrderIds = {o1, o2, o3}
    Items = {i1, i2, i3}
    ProductIds = {milk, tea}
    orderId <- MCOrderId
    productId <- MCProductId
    MaxVersion = 3
INVARIANTS
    ItemsAreTheOrders
    ProductsFit
    ProductsAreCurrent
